---------------------------- MODULE Spec2Model ----------------------------
(***************************************************************************)
(* A model of the smart-rag pipeline: Chunker (src/services/chunker.py),   *)
(* Retriever (src/services/retriever.py) and Generator                     *)
(* (src/services/generator.py).  Every component is driven by its own      *)
(* specification (SpecRetr, SpecGen, SpecCite, SpecConf, SpecSplit,        *)
(* SpecChunk): the inputs of one call are drawn from bounded sets and the  *)
(* actions apply the operation, computed as the code computes it.          *)
(* SpecReranker runs threads through get_reranker, one statement a step.   *)
(*                                                                         *)
(* Strings are sequences of one-character strings.  Scores are integers:   *)
(* relevance scores of the retriever in units of 1/ScoreUnit (the code     *)
(* rounds them to 4 decimals).                                             *)
(***************************************************************************)
EXTENDS Integers, Sequences, FiniteSets, TLC

VARIABLES
    phase,        \* which component this behaviour drives
    candidates,   \* Retriever: what _similarity_search returned for the query
    r_call,       \* Retriever: the call made (op "none" before it)
    r_result,     \* Retriever: the RetrievalResult returned
    g_call,       \* Generator: the call made and what the model answered
    g_out,        \* Generator: what the call returned (or that it raised)
    k_call,       \* Chunker: the call made and what the providers answered
    k_out,        \* Chunker: what the call returned (or that it raised)
    reranker,     \* retriever.py: the global _reranker (0 is None, else an instance)
    constructed,  \* how many CrossEncoder instances have been constructed
    self_reranker,\* Retriever._reranker of every Retriever instance (0 is None)
    thread,       \* the threads that ask for the reranker: position and locals
    metadata_store, \* Indexer: the Document records of the metadata store
    vector_store,   \* Indexer: the chunks held by the vector store
    i_call,       \* Indexer: the last index_document call and what it met
    i_result,     \* Indexer: the IndexingResult of the last call
    i_calls       \* Indexer: how many index_document calls have returned

rvars == <<candidates, r_call, r_result>>
gvars == <<g_call, g_out>>
kvars == <<k_call, k_out>>
cvars == <<reranker, constructed, self_reranker, thread>>
ivars == <<metadata_store, vector_store, i_call, i_result, i_calls>>
vars == <<phase, candidates, r_call, r_result, g_call, g_out, k_call, k_out,
          reranker, constructed, self_reranker, thread,
          metadata_store, vector_store, i_call, i_result, i_calls>>

NoCall == [op |-> "none"]

\* RetrievalResult(chunks=[], total_retrieved=0), rerank_time_ms left 0
EmptyResult ==
    [chunks |-> <<>>, total_retrieved |-> 0, rerank_calls |-> 0, rerank_time_ms |-> 0]

\* The variables of a component that a behaviour does not drive.
RetrIdle == candidates = <<>> /\ r_call = NoCall /\ r_result = EmptyResult
GenIdle == g_call = NoCall /\ g_out = NoCall
ChunkIdle == k_call = NoCall /\ k_out = NoCall
RerankerIdle ==
    reranker = 0 /\ constructed = 0 /\ self_reranker = <<>> /\ thread = <<>>
IndexerIdle ==
    /\ metadata_store = <<>> /\ vector_store = {}
    /\ i_call = NoCall /\ i_result = NoCall /\ i_calls = 0

Min(a, b) == IF a < b THEN a ELSE b
Max(a, b) == IF a > b THEN a ELSE b

\* s[1..n], as Python's s[:n] for n >= 0
Take(s, n) == SubSeq(s, 1, Min(n, Len(s)))
\* s[n+1..], as Python's s[n:] for n >= 0
Drop(s, n) == SubSeq(s, Min(n, Len(s)) + 1, Len(s))


(***************************************************************************)
(*                    STRINGS (sequences of characters)                    *)
(***************************************************************************)

NL == "\n"

\* str.isspace() on the characters of the model
IsWs(c) == c \in {" ", NL}

\* str.lower() on one character of the model's alphabet
LowerChar(c) ==
    CASE c = "A" -> "a"
      [] c = "B" -> "b"
      [] c = "X" -> "x"
      [] c = "W" -> "w"
      [] c = "H" -> "h"
      [] c = "I" -> "i"
      [] c = "L" -> "l"
      [] c = "O" -> "o"
      [] c = "S" -> "s"
      [] OTHER -> c

\* str.lower()
Lower(s) == [i \in 1..Len(s) |-> LowerChar(s[i])]

RECURSIVE LStrip(_)
LStrip(s) == IF s # <<>> /\ IsWs(Head(s)) THEN LStrip(Tail(s)) ELSE s

RECURSIVE RStrip(_)
RStrip(s) ==
    IF s # <<>> /\ IsWs(s[Len(s)]) THEN RStrip(SubSeq(s, 1, Len(s) - 1)) ELSE s

\* str.strip()
Strip(s) == RStrip(LStrip(s))

\* sub occurs in s at (1-based) position i
MatchAt(s, sub, i) ==
    /\ i >= 1
    /\ i + Len(sub) - 1 <= Len(s)
    /\ \A k \in 1..Len(sub) : s[i + k - 1] = sub[k]

\* sub in s
Contains(sub, s) == \E i \in 1..(Len(s) - Len(sub) + 1) : MatchAt(s, sub, i)

\* s.startswith(sub), s.endswith(sub)
StartsWith(s, sub) == MatchAt(s, sub, 1)
EndsWith(s, sub) == MatchAt(s, sub, Len(s) - Len(sub) + 1)

\* set(s.split()): the maximal runs of non-whitespace characters
Words(s) ==
    { SubSeq(s, i, j) : <<i, j>> \in
        { ij \in (1..Len(s)) \X (1..Len(s)) :
            /\ ij[1] <= ij[2]
            /\ \A k \in ij[1]..ij[2] : ~IsWs(s[k])
            /\ (ij[1] = 1 \/ IsWs(s[ij[1] - 1]))
            /\ (ij[2] = Len(s) \/ IsWs(s[ij[2] + 1])) } }

\* s.replace("\n", " ")
ReplaceNewlines(s) == [i \in 1..Len(s) |-> IF s[i] = NL THEN " " ELSE s[i]]

\* s.find(sep): the first (1-based) position of sep in s, 0 if there is none
Find(s, sep) ==
    IF Contains(sep, s)
    THEN CHOOSE i \in 1..Len(s) :
            MatchAt(s, sep, i) /\ \A j \in 1..(i - 1) : ~MatchAt(s, sep, j)
    ELSE 0

\* s.split(sep) for a non-empty sep
RECURSIVE Split(_, _)
Split(s, sep) ==
    LET i == Find(s, sep)
    IN  IF i = 0 THEN <<s>>
        ELSE <<SubSeq(s, 1, i - 1)>> \o Split(SubSeq(s, i + Len(sep), Len(s)), sep)

\* s.rfind(sep, 0, end): the highest 0-based index at which sep lies wholly
\* inside s[0:end], -1 if there is none
RFind(s, sep, end) ==
    LET hits == { i \in 0..(Min(end, Len(s)) - Len(sep)) : MatchAt(s, sep, i + 1) }
    IN  IF hits = {} THEN -1
        ELSE CHOOSE i \in hits : \A j \in hits : j <= i

(***************************************************************************)
(*                              RETRIEVER                                  *)
(***************************************************************************)

\* Bounds of the retriever's inputs.
MaxCandidates == 3
MaxParam == 3

Docs == {"d1", "d2", "d3"}

\* Raw cross-encoder scores the reranker may predict for a chunk.
RawScores == {0, 2}

\* relevance scores are multiples of 1/ScoreUnit (round(..., 4))
ScoreUnit == 10000

\* settings.retrieval.rerank_top_k
DefaultRerankTopK == 10

\* round(1.0 / (1.0 + math.exp(-score)), 4) in units of 1/ScoreUnit,
\* tabulated at the integer raw scores of the model.
NormalizeScore(score) ==
    CASE score <= -10 -> 0
      [] score = -2 -> 1192
      [] score = -1 -> 2689
      [] score = 0 -> 5000
      [] score = 1 -> 7311
      [] score = 2 -> 8808
      [] score >= 10 -> ScoreUnit
      [] OTHER -> 5000

\* A sort that puts a chunk in front of the earlier chunks of equal score.
RECURSIVE InsertDescTiesReversed(_, _)
InsertDescTiesReversed(sorted, c) ==
    IF sorted = <<>> THEN <<c>>
    ELSE IF Head(sorted).relevance_score > c.relevance_score
         THEN <<Head(sorted)>> \o InsertDescTiesReversed(Tail(sorted), c)
         ELSE <<c>> \o sorted

\* list.sort(key=lambda c: c.relevance_score, reverse=True): a stable sort,
\* chunks of equal score keep their relative order.
RECURSIVE InsertDesc(_, _)
InsertDesc(sorted, c) ==
    IF sorted = <<>> THEN <<c>>
    ELSE IF Head(sorted).relevance_score >= c.relevance_score
         THEN <<Head(sorted)>> \o InsertDesc(Tail(sorted), c)
         ELSE <<c>> \o sorted

RECURSIVE SortByRelevanceFrom(_, _)
SortByRelevanceFrom(chunks, acc) ==
    IF chunks = <<>> THEN acc
    ELSE SortByRelevanceFrom(Tail(chunks), InsertDesc(acc, Head(chunks)))

SortByRelevance(chunks) == SortByRelevanceFrom(chunks, <<>>)

\* A reranker that forgets to sort before truncating.
RerankUnsorted(chunks, top_k) ==
    IF chunks = <<>> THEN <<>>
    ELSE Take([i \in 1..Len(chunks) |->
                 [chunks[i] EXCEPT !.relevance_score = NormalizeScore(chunks[i].raw)]], top_k)

\* Retriever._rerank: score every chunk, sort descending, keep top_k.
Rerank(chunks, top_k) ==
    IF chunks = <<>> THEN <<>>
    ELSE LET scored == [i \in 1..Len(chunks) |->
                          [chunks[i] EXCEPT !.relevance_score = NormalizeScore(chunks[i].raw)]]
         IN  Take(SortByRelevance(scored), top_k)

InSeq(x, s) == \E i \in 1..Len(s) : s[i] = x

\* The first pass stopping as soon as either condition holds.
FirstPassBreakEither(n_docs, n_selected, target_count, min_docs) ==
    n_docs >= min_docs \/ n_selected >= target_count

\* if len(doc_counts) >= min_docs and len(selected) >= target_count: break
FirstPassBreak(n_docs, n_selected, target_count, min_docs) ==
    n_docs >= min_docs /\ n_selected >= target_count

\* First pass of _select_diverse_chunks: st = [selected, doc_counts, stop].
RECURSIVE FirstPass(_, _, _, _, _)
FirstPass(chunks, i, st, target_count, min_docs) ==
    IF i > Len(chunks) \/ st.stop THEN st
    ELSE LET chunk == chunks[i]
             doc_id == chunk.document_id
         IN  IF doc_id \notin DOMAIN st.doc_counts
             THEN LET sel == Append(st.selected, chunk)
                      dc == [d \in DOMAIN st.doc_counts \cup {doc_id} |->
                                IF d = doc_id THEN 1 ELSE st.doc_counts[d]]
                      brk == FirstPassBreak(Cardinality(DOMAIN dc), Len(sel), target_count, min_docs)
                  IN  FirstPass(chunks, i + 1,
                                [selected |-> sel, doc_counts |-> dc, stop |-> brk],
                                target_count, min_docs)
             ELSE FirstPass(chunks, i + 1, st, target_count, min_docs)

\* doc_counts.get(doc_id, 0)
DocCountGet(doc_counts, d) == IF d \in DOMAIN doc_counts THEN doc_counts[d] ELSE 0

\* The cap compared off by one.
UnderCapInclusive(doc_counts, doc_id, max_per_doc) ==
    DocCountGet(doc_counts, doc_id) <= max_per_doc

\* if doc_counts.get(doc_id, 0) < max_per_doc
UnderCap(doc_counts, doc_id, max_per_doc) ==
    DocCountGet(doc_counts, doc_id) < max_per_doc

\* Second pass of _select_diverse_chunks.
RECURSIVE SecondPass(_, _, _, _, _)
SecondPass(chunks, i, st, target_count, max_per_doc) ==
    IF i > Len(chunks) \/ Len(st.selected) >= target_count THEN st
    ELSE LET chunk == chunks[i]
             doc_id == chunk.document_id
         IN  IF InSeq(chunk, st.selected)
             THEN SecondPass(chunks, i + 1, st, target_count, max_per_doc)
             ELSE IF UnderCap(st.doc_counts, doc_id, max_per_doc)
                  THEN SecondPass(chunks, i + 1,
                         [st EXCEPT !.selected = Append(@, chunk),
                                    !.doc_counts = [d \in DOMAIN @ \cup {doc_id} |->
                                        IF d = doc_id THEN DocCountGet(@, doc_id) + 1 ELSE @[d]]],
                         target_count, max_per_doc)
                  ELSE SecondPass(chunks, i + 1, st, target_count, max_per_doc)

\* What the first pass of _select_diverse_chunks has selected when it ends.
FirstPassSelected(chunks, target_count, min_docs) ==
    FirstPass(chunks, 1, [selected |-> <<>>, doc_counts |-> <<>>, stop |-> FALSE],
              target_count, min_docs).selected

\* Retriever._select_diverse_chunks
SelectDiverseChunks(chunks, target_count, min_docs, max_per_doc) ==
    IF chunks = <<>> THEN <<>>
    ELSE LET st0 == [selected |-> <<>>, doc_counts |-> <<>>, stop |-> FALSE]
             st1 == FirstPass(chunks, 1, st0, target_count, min_docs)
             st2 == SecondPass(chunks, 1, st1, target_count, max_per_doc)
         IN  SortByRelevance(st2.selected)

\* rerank_top_k or self.settings.retrieval.rerank_top_k
EffectiveRerankTopK(rerank_top_k) ==
    IF rerank_top_k = 0 THEN DefaultRerankTopK ELSE rerank_top_k

CandidateChunk(i, d, raw) ==
    [id |-> i, document_id |-> d, raw |-> raw, relevance_score |-> 0]

\* The candidate lists _similarity_search may return: ids are distinct.
CandidateLists ==
    UNION { { [i \in 1..n |-> CandidateChunk(i, f[i][1], f[i][2])] :
                f \in [1..n -> Docs \X RawScores] } : n \in 0..MaxCandidates }

\* A retriever without the early return for an empty candidate list.
NoCandidatesIgnored(cands) == FALSE

\* if not candidates:
NoCandidates(cands) == cands = <<>>

\* How often _rerank uses the reranker (self._get_reranker() and predict):
\* never for an empty list.
RerankerCalls(chunks) == IF chunks = <<>> THEN 0 ELSE 1

\* Retriever.retrieve; elapsed is the time measured around _rerank
Retrieve(rerank_top_k, elapsed) ==
    /\ phase = "retriever" /\ r_call.op = "none"
    /\ r_call' = [op |-> "retrieve", rerank_top_k |-> EffectiveRerankTopK(rerank_top_k),
                  min_docs |-> 0, max_chunks_per_doc |-> 0]
    /\ r_result' =
         IF NoCandidates(candidates) THEN EmptyResult
         ELSE [chunks |-> Rerank(candidates, EffectiveRerankTopK(rerank_top_k)),
               total_retrieved |-> Len(candidates),
               rerank_calls |-> RerankerCalls(candidates),
               rerank_time_ms |-> elapsed]
    /\ UNCHANGED <<phase, candidates, gvars, kvars, cvars, ivars>>

\* Retriever.retrieve_from_multiple_documents
RetrieveFromMultipleDocuments(rerank_top_k, min_docs, max_chunks_per_doc, elapsed) ==
    /\ phase = "retriever" /\ r_call.op = "none"
    /\ r_call' = [op |-> "retrieve_from_multiple_documents",
                  rerank_top_k |-> EffectiveRerankTopK(rerank_top_k),
                  min_docs |-> min_docs, max_chunks_per_doc |-> max_chunks_per_doc]
    /\ r_result' =
         IF NoCandidates(candidates) THEN EmptyResult
         ELSE LET ranked_chunks == Rerank(candidates, Len(candidates))
              IN  [chunks |-> SelectDiverseChunks(ranked_chunks,
                                  EffectiveRerankTopK(rerank_top_k), min_docs, max_chunks_per_doc),
                   first_pass |-> FirstPassSelected(ranked_chunks,
                                  EffectiveRerankTopK(rerank_top_k), min_docs),
                   total_retrieved |-> Len(candidates),
                   rerank_calls |-> RerankerCalls(candidates),
                   rerank_time_ms |-> elapsed]
    /\ UNCHANGED <<phase, candidates, gvars, kvars, cvars, ivars>>

InitRetr ==
    /\ phase = "retriever"
    /\ candidates \in CandidateLists
    /\ r_call = NoCall
    /\ r_result = EmptyResult
    /\ GenIdle
    /\ ChunkIdle
    /\ RerankerIdle
    /\ IndexerIdle

\* Times int((time.time() - start_time) * 1000) may measure.
ElapsedMs == {0, 7}

NextRetr ==
    \/ \E k \in 0..MaxParam, elapsed \in ElapsedMs : Retrieve(k, elapsed)
    \/ \E k \in 0..MaxParam, m \in 0..MaxParam, p \in 0..MaxParam,
          elapsed \in ElapsedMs :
          RetrieveFromMultipleDocuments(k, m, p, elapsed)

SpecRetr == InitRetr /\ [][NextRetr]_vars

\* ---- properties of the retriever ----

DocsOf(chunks) == { chunks[i].document_id : i \in 1..Len(chunks) }
CountDoc(chunks, d) == Cardinality({ i \in 1..Len(chunks) : chunks[i].document_id = d })
IdsOf(chunks) == { chunks[i].id : i \in 1..Len(chunks) }
IsMultiCall == r_call.op = "retrieve_from_multiple_documents"

C7_MinDocsCovered ==
    (IsMultiCall /\ Cardinality(DocsOf(candidates)) >= r_call.min_docs) =>
        Cardinality(DocsOf(r_result.chunks)) >= r_call.min_docs

\* min_docs exceeds rerank_top_k, the best-ranked chunks are of one document,
\* and the result still spans min_docs documents.
C7_Witness ==
    /\ IsMultiCall
    /\ r_call.min_docs >= 2
    /\ r_call.rerank_top_k < r_call.min_docs
    /\ Cardinality(DocsOf(candidates)) >= r_call.min_docs
    /\ Len(candidates) >= 3
    /\ candidates[1].document_id = candidates[2].document_id
    /\ candidates[1].raw >= candidates[3].raw /\ candidates[2].raw >= candidates[3].raw
    /\ Cardinality(DocsOf(r_result.chunks)) >= r_call.min_docs

\* C8: retrieve returns at most rerank_top_k chunks (the default when the
\* argument is omitted), in non-increasing order of relevance_score, every
\* score in [0,1], and they are the rerank_top_k best-scored candidates.
C8_RetrieveTopK ==
    r_call.op = "retrieve" =>
        LET out == r_result.chunks
            k == r_call.rerank_top_k
        IN  /\ Len(out) <= k
            /\ Len(out) = Min(k, Len(candidates))
            /\ \A i \in 1..(Len(out) - 1) :
                   out[i].relevance_score >= out[i + 1].relevance_score
            /\ \A i \in 1..Len(out) :
                   /\ out[i].relevance_score >= 0
                   /\ out[i].relevance_score <= ScoreUnit
                   /\ \E j \in 1..Len(candidates) :
                         /\ candidates[j].id = out[i].id
                         /\ candidates[j].document_id = out[i].document_id
                         /\ out[i].relevance_score = NormalizeScore(candidates[j].raw)
            /\ Cardinality(IdsOf(out)) = Len(out)
            /\ \A j \in 1..Len(candidates) :
                   candidates[j].id \notin IdsOf(out) =>
                      \A i \in 1..Len(out) :
                         out[i].relevance_score >= NormalizeScore(candidates[j].raw)

\* Truncation and reordering both happen: more candidates than rerank_top_k,
\* the best one returned first although the store returned it last.
C8_Witness ==
    /\ r_call.op = "retrieve"
    /\ Len(candidates) > r_call.rerank_top_k
    /\ Len(r_result.chunks) = r_call.rerank_top_k
    /\ candidates[1].raw < candidates[Len(candidates)].raw
    /\ r_result.chunks[1].id = Len(candidates)

\* C16: when the vector store returns no candidate, retrieve() and
\* retrieve_from_multiple_documents() return, without raising, a result with
\* no chunks, total_retrieved 0 and rerank_time_ms 0, and the reranker is
\* neither constructed nor invoked.
C16_NoCandidates ==
    (r_call.op # "none" /\ candidates = <<>>) =>
        /\ r_result.chunks = <<>>
        /\ r_result.total_retrieved = 0
        /\ r_result.rerank_time_ms = 0
        /\ r_result.rerank_calls = 0

\* retrieve_from_multiple_documents, asked for at least one document, has
\* returned on an empty candidate list.
C16_Witness ==
    /\ candidates = <<>>
    /\ IsMultiCall
    /\ r_call.min_docs > 0
    /\ r_result = EmptyResult


\* C23: in _select_diverse_chunks the first pass stops adding chunks as soon
\* as min_docs distinct documents are represented or target_count chunks have
\* been selected (it never adds a chunk once one of the two held), and the
\* second pass then fills every remaining slot from the documents still
\* under max_chunks_per_doc.
C23_FirstPassStopsThenFill ==
    (IsMultiCall /\ candidates # <<>>) =>
        LET first_pass == r_result.first_pass
            out == r_result.chunks
        IN  /\ \A n \in 1..(Len(first_pass) - 1) :
                  ~(n >= r_call.min_docs \/ n >= r_call.rerank_top_k)
            /\ \/ Len(out) >= r_call.rerank_top_k
               \/ \A j \in 1..Len(candidates) :
                     candidates[j].id \notin IdsOf(out) =>
                        CountDoc(out, candidates[j].document_id)
                            >= r_call.max_chunks_per_doc

\* The second half of C23 alone: no slot stays empty while a candidate of a
\* document under the cap is left.
C23_SlotsFilled ==
    (IsMultiCall /\ candidates # <<>>) =>
        \/ Len(r_result.chunks) >= r_call.rerank_top_k
        \/ \A j \in 1..Len(candidates) :
              candidates[j].id \notin IdsOf(r_result.chunks) =>
                 CountDoc(r_result.chunks, candidates[j].document_id)
                     >= r_call.max_chunks_per_doc

IsRetrieveCall == r_call.op = "retrieve"

\* The position of the chunk with this id in the list the vector store returned.
PositionOf(id) == CHOOSE j \in 1..Len(candidates) : candidates[j].id = id

\* C25: in the result of retrieve(), two chunks of equal rounded relevance_score
\* stand in the relative order in which the vector store returned them.
C25_StableTies ==
    (IsRetrieveCall /\ candidates # <<>>) =>
        \A a, b \in 1..Len(r_result.chunks) :
            (a < b /\ r_result.chunks[a].relevance_score = r_result.chunks[b].relevance_score) =>
                PositionOf(r_result.chunks[a].id) < PositionOf(r_result.chunks[b].id)

\* retrieve() has returned two chunks of equal score behind a chunk that the
\* vector store returned after them.
C25_Witness ==
    /\ IsRetrieveCall
    /\ Len(candidates) = 3
    /\ Len(r_result.chunks) = 3
    /\ r_result.chunks[1].id = candidates[3].id
    /\ r_result.chunks[2].id = candidates[1].id
    /\ r_result.chunks[3].id = candidates[2].id
    /\ r_result.chunks[2].relevance_score = r_result.chunks[3].relevance_score

\* C29: retrieve_from_multiple_documents returns at most rerank_top_k chunks,
\* for every candidate list and every min_docs and max_chunks_per_doc.
C29_AtMostRerankTopK ==
    IsMultiCall => Len(r_result.chunks) <= r_call.rerank_top_k

\* What does hold: the result is longer than rerank_top_k only when min_docs
\* is, and then it has one chunk for each of at most min_docs documents.
C29_AtMostMaxOfTopKAndMinDocs ==
    IsMultiCall =>
        \/ Len(r_result.chunks) <= r_call.rerank_top_k
        \/ /\ Len(r_result.chunks) <= r_call.min_docs
           /\ Len(r_result.chunks) = Cardinality(DocsOf(r_result.chunks))


(***************************************************************************)
(*                              GENERATOR                                  *)
(* Relevance scores are in units of 1/GenScoreUnit here, so that the       *)
(* variance of _calculate_confidence stays within TLC's integers.          *)
(* Character counts are scaled: max_len 200 -> QuoteMaxLen, the 50 chars   *)
(* of a "substantial" sentence -> BestSentenceMin.                         *)
(***************************************************************************)

GenScoreUnit == 100

\* max_len: int = 200 of _find_similar_quote and _extract_best_quote, scaled
QuoteMaxLen == 5
\* len(sentence) >= 50 of _extract_best_quote, scaled
BestSentenceMin == 3

Ellipsis == <<".", ".", ".">>
SentenceSep == <<".", " ">>

\* A _validate_quote that compares without lower-casing.
ValidateQuoteCaseSensitive(quote, content) ==
    IF quote = <<>> \/ content = <<>> THEN FALSE
    ELSE LET quote_words == Words(Strip(quote))
         IN  IF Contains(Strip(quote), content) THEN TRUE
             ELSE IF Cardinality(quote_words) > 0
                  THEN 10 * Cardinality(quote_words \cap Words(content))
                          >= 8 * Cardinality(quote_words)
                  ELSE FALSE

\* Generator._validate_quote
ValidateQuote(quote, content) ==
    IF quote = <<>> \/ content = <<>> THEN FALSE
    ELSE LET quote_lower == Strip(Lower(quote))
             content_lower == Lower(content)
             quote_words == Words(quote_lower)
             content_words == Words(content_lower)
             overlap == quote_words \cap content_words
         IN  IF Contains(quote_lower, content_lower) THEN TRUE
             ELSE IF Cardinality(quote_words) > 0
                  THEN 10 * Cardinality(overlap) >= 8 * Cardinality(quote_words)
                  ELSE FALSE

\* The scoring loop of _find_similar_quote: best = [sentence, score].
RECURSIVE BestSentence(_, _, _, _)
BestSentence(sentences, i, quote_words, best) ==
    IF i > Len(sentences) THEN best
    ELSE LET sentence_words == Words(Lower(sentences[i]))
             overlap == Cardinality(quote_words \cap sentence_words)
         IN  BestSentence(sentences, i + 1, quote_words,
                 IF overlap > best.score
                 THEN [sentence |-> Strip(sentences[i]), score |-> overlap]
                 ELSE best)

\* Generator._find_similar_quote
FindSimilarQuote(quote, content, max_len) ==
    IF content = <<>> THEN quote
    ELSE LET sentences == Split(ReplaceNewlines(content), SentenceSep)
             quote_words == Words(Lower(quote))
             best == BestSentence(sentences, 1, quote_words,
                                  [sentence |-> <<>>, score |-> 0])
         IN  IF best.sentence # <<>>
             THEN IF Len(best.sentence) > max_len
                  THEN Take(best.sentence, max_len) \o Ellipsis
                  ELSE best.sentence
             ELSE IF Len(quote) > max_len THEN Take(quote, max_len) ELSE quote

\* The loop of _extract_best_quote over the sentences.
RECURSIVE FirstSubstantial(_, _, _)
FirstSubstantial(sentences, i, max_len) ==
    IF i > Len(sentences) THEN [found |-> FALSE, quote |-> <<>>]
    ELSE LET sentence == Strip(sentences[i])
         IN  IF Len(sentence) >= BestSentenceMin
             THEN [found |-> TRUE,
                   quote |-> IF Len(sentence) > max_len
                             THEN Take(sentence, max_len) \o Ellipsis
                             ELSE sentence]
             ELSE FirstSubstantial(sentences, i + 1, max_len)

\* Generator._extract_best_quote
ExtractBestQuote(content, max_len) ==
    IF content = <<>> THEN <<>>
    ELSE LET first == FirstSubstantial(Split(ReplaceNewlines(content), SentenceSep), 1, max_len)
         IN  IF first.found THEN first.quote
             ELSE IF Len(content) > max_len THEN Take(content, max_len) \o Ellipsis
             ELSE content

\* Citation(document_name, page_number, verbatim_quote, relevance_score)
Citation(chunk, quote) ==
    [document_name |-> chunk.document_name, page_number |-> chunk.page_number,
     verbatim_quote |-> quote, relevance_score |-> chunk.relevance_score]

\* An _extract_citations that never takes a quote for a duplicate.
SeenBeforeNever(verbatim_quote, seen_quotes) == FALSE

\* if verbatim_quote in seen_quotes:
SeenBefore(verbatim_quote, seen_quotes) == verbatim_quote \in seen_quotes

\* The body of the loop of _extract_citations over llm_citations:
\* st = [citations, seen_quotes, verified_count].
RECURSIVE CitationLoop(_, _, _, _)
CitationLoop(llm_citations, i, chunks, st) ==
    IF i > Len(llm_citations) THEN st
    ELSE LET cit == llm_citations[i]
             source_index == cit.source_index - 1
         IN  IF source_index < 0 \/ source_index >= Len(chunks)
             THEN CitationLoop(llm_citations, i + 1, chunks, st)
             ELSE LET chunk == chunks[source_index + 1]
                      verbatim_quote == cit.verbatim_quote
                  IN  IF SeenBefore(verbatim_quote, st.seen_quotes)
                      THEN CitationLoop(llm_citations, i + 1, chunks, st)
                      ELSE LET ok == verbatim_quote # <<>> /\ ValidateQuote(verbatim_quote, chunk.content)
                               emitted ==
                                   IF verbatim_quote = <<>> \/ ok THEN verbatim_quote
                                   ELSE FindSimilarQuote(verbatim_quote, chunk.content, QuoteMaxLen)
                           IN  CitationLoop(llm_citations, i + 1, chunks,
                                 [citations |-> Append(st.citations, Citation(chunk, emitted)),
                                  seen_quotes |-> st.seen_quotes \cup {verbatim_quote},
                                  verified_count |-> st.verified_count + (IF ok THEN 1 ELSE 0)])

\* "If LLM didn't provide citations, create from top chunks": chunks[:3]
SynthesizedFrom == 3

\* An _extract_citations that synthesizes a citation from every chunk.
TopChunksAll(chunks) == chunks

\* chunks[:3]
TopChunks(chunks) == Take(chunks, SynthesizedFrom)

\* An _extract_citations without the citations made from the top chunks.
ExtractCitationsNoFallback(llm_citations, chunks) ==
    LET st == CitationLoop(llm_citations, 1, chunks,
                  [citations |-> <<>>, seen_quotes |-> {}, verified_count |-> 0])
    IN  [citations |-> st.citations, verified_count |-> st.verified_count]

\* Generator._extract_citations: [citations, verified_count]
ExtractCitations(llm_citations, chunks) ==
    LET st == CitationLoop(llm_citations, 1, chunks,
                  [citations |-> <<>>, seen_quotes |-> {}, verified_count |-> 0])
        top == TopChunks(chunks)
    IN  IF st.citations = <<>> /\ chunks # <<>>
        THEN [citations |-> [i \in 1..Len(top) |->
                                Citation(top[i], ExtractBestQuote(top[i].content, QuoteMaxLen))],
              verified_count |-> st.verified_count + Len(top)]
        ELSE [citations |-> st.citations, verified_count |-> st.verified_count]

RECURSIVE SumSeq(_)
SumSeq(s) == IF s = <<>> THEN 0 ELSE Head(s) + SumSeq(Tail(s))

\* [x for x in s if x > 0]
RECURSIVE PositiveOnly(_)
PositiveOnly(s) ==
    IF s = <<>> THEN <<>>
    ELSE IF Head(s) > 0 THEN <<Head(s)>> \o PositiveOnly(Tail(s))
         ELSE PositiveOnly(Tail(s))

\* A confidence without the bonus for multiple sources.
SourceBonusNone(n_citations) == 0

\* source_bonus = min(len(citations) * 0.02, 0.1), in units of 1/GenScoreUnit
SourceBonus(n_citations) == Min(n_citations * 2, 10)

\* round(x, 2) of x = num/den >= 0, in hundredths; a value half way between
\* two hundredths goes either way, as the float that holds it decides.
RoundHundredths(num, den) ==
    LET q == (100 * num) \div den
        r == (100 * num) % den
    IN  IF 2 * r < den THEN {q}
        ELSE IF 2 * r > den THEN {q + 1}
        ELSE {q, q + 1}

\* Generator._calculate_confidence on the relevance scores of the chunks and
\* of the citations: the set of values the call may return, in hundredths.
CalculateConfidence(chunk_scores, cit_scores) ==
    IF chunk_scores = <<>> \/ cit_scores = <<>> THEN {0}
    ELSE LET positive == PositiveOnly(cit_scores)
             citation_scores == IF positive = <<>>
                                THEN Take(chunk_scores, Len(cit_scores))
                                ELSE positive
             n == Len(citation_scores)
         IN  IF n = 0 THEN {0}
             ELSE LET total == SumSeq(citation_scores)
                      squares == SumSeq([i \in 1..n |-> citation_scores[i] * citation_scores[i]])
                      \* everything over the denominator den = 2 n^2 unit^2
                      den == 2 * n * n * GenScoreUnit * GenScoreUnit
                      avg_num == 2 * n * GenScoreUnit * total
                      bonus_num == SourceBonus(Len(cit_scores)) * (den \div 100)
                      \* variance * 0.5 = (n * squares - total^2) / den
                      penalty_num == IF n > 1
                                     THEN Min(n * squares - total * total, den \div 10)
                                     ELSE 0
                      confidence_num == avg_num + bonus_num - penalty_num
                  IN  { Max(0, Min(100, h)) : h \in RoundHundredths(confidence_num, den) }

ScoresOf(items) == [i \in 1..Len(items) |-> items[i].relevance_score]

NotFoundText == <<"No relevant information found in the indexed documents.">>

\* Response.not_found_response
NotFoundResponse(chunks_retrieved) ==
    [kind |-> "response", answer |-> NotFoundText, citations |-> <<>>,
     chunks_retrieved |-> chunks_retrieved, chunks_used |-> 0,
     confidence_score |-> 0, quotes_verified |-> 0, not_found |-> TRUE]

Raised(error) == [kind |-> "raised", error |-> error]

\* ---- Response.to_json_dict (src/src/models/response.py) ----

\* A to_json_dict that writes the confidence as it is stored.
JsonConfidenceAsStored(confidence_score) == {confidence_score}

\* round(self.metadata.confidence_score, 2), the score and the result in
\* units of 1/ScoreUnit
JsonConfidence(confidence_score) ==
    { q * (ScoreUnit \div 100) : q \in RoundHundredths(confidence_score, ScoreUnit) }

\* Response.to_json_dict: the dictionaries it may return (one, but for a
\* confidence half way between two hundredths)
ToJsonDict(response) ==
    { [query |-> response.query_text,
       answer |-> response.answer,
       citations |-> [n \in 1..Len(response.citations) |->
                        [document_name |-> response.citations[n].document_name,
                         page_number |-> response.citations[n].page_number,
                         verbatim_quote |-> response.citations[n].verbatim_quote,
                         relevance_score |-> response.citations[n].relevance_score]],
       metadata |-> [chunks_retrieved |-> response.metadata.chunks_retrieved,
                     chunks_used |-> response.metadata.chunks_used,
                     processing_time_ms |-> response.metadata.processing_time_ms,
                     confidence_score |-> c,
                     quotes_verified |-> response.metadata.quotes_verified]] :
      c \in JsonConfidence(response.metadata.confidence_score) }

\* A call of Response.to_json_dict
ToJsonDictCall(response) ==
    /\ phase = "json" /\ g_call.op = "none"
    /\ g_call' = [op |-> "to_json_dict", response |-> response]
    /\ \E d \in ToJsonDict(response) : g_out' = [kind |-> "json", dict |-> d]
    /\ UNCHANGED <<phase, rvars, kvars, cvars, ivars>>

\* ---- query classification ----

\* \w of the regular expressions, on the characters of the model
IsWordChar(c) == ~IsWs(c) /\ c \notin {"?", ".", ",", "!", "-"}

\* The words of a string in order (the pieces between runs of \s+).
RECURSIVE WordList(_)
WordList(s) ==
    LET t == LStrip(s)
    IN  IF t = <<>> THEN <<>>
        ELSE LET n == CHOOSE k \in 1..Len(t) :
                        /\ \A j \in 1..k : ~IsWs(t[j])
                        /\ (k = Len(t) \/ IsWs(t[k + 1]))
             IN  <<SubSeq(t, 1, n)>> \o WordList(SubSeq(t, n + 1, Len(t)))

W_who == <<"w", "h", "o">>
W_what == <<"w", "h", "a", "t">>
W_are == <<"a", "r", "e">>
W_is == <<"i", "s">>
W_were == <<"w", "e", "r", "e">>
W_was == <<"w", "a", "s">>
W_all == <<"a", "l", "l">>
W_the == <<"t", "h", "e">>
W_list == <<"l", "i", "s", "t">>
W_name == <<"n", "a", "m", "e">>
W_which == <<"w", "h", "i", "c", "h">>
W_have == <<"h", "a", "v", "e">>
W_had == <<"h", "a", "d">>
W_how == <<"h", "o", "w">>
W_many == <<"m", "a", "n", "y">>
W_give == <<"g", "i", "v", "e">>
W_me == <<"m", "e">>
W_a == <<"a">>
W_enumerate == <<"e", "n", "u", "m", "e", "r", "a", "t", "e">>
W_identify == <<"i", "d", "e", "n", "t", "i", "f", "y">>

\* \w+s\b at the start of a word
PluralPrefix(w) ==
    \E k \in 2..Len(w) :
        /\ \A j \in 1..k : IsWordChar(w[j])
        /\ w[k] = "s"
        /\ (k = Len(w) \/ ~IsWordChar(w[k + 1]))

\* \w+s as a whole word (followed by \s+)
PluralWord(w) ==
    Len(w) >= 2 /\ w[Len(w)] = "s" /\ \A j \in 1..Len(w) : IsWordChar(w[j])

\* ENTITY_QUERY_PATTERNS, each on the words t of the lowered, stripped query.
\* A pattern ending in \s+ needs a further word, the query being stripped.
EntityPatternMatches(t) ==
    LET n == Len(t)
    IN  \/ n >= 3 /\ t[1] = W_who /\ t[2] \in {W_are, W_is, W_were, W_was}
        \/ n >= 4 /\ t[1] = W_what /\ t[2] \in {W_are, W_is, W_were, W_was} /\ t[3] = W_all
        \/ n >= 4 /\ t[1] = W_what /\ t[2] \in {W_are, W_is} /\ t[3] = W_the
                  /\ PluralPrefix(t[4])
        \/ n >= 2 /\ t[1] = W_list
        \/ n >= 2 /\ t[1] = W_name
        \/ n >= 3 /\ t[1] = W_which /\ PluralWord(t[2])
                  /\ \E v \in {W_are, W_were, W_have, W_had} : StartsWith(t[3], v)
        \/ n >= 3 /\ t[1] = W_how /\ t[2] = W_many
        \/ n >= 4 /\ t[1] = W_give /\ t[2] = W_me /\ t[3] = W_list
        \/ n >= 5 /\ t[1] = W_give /\ t[2] = W_me /\ t[3] = W_a /\ t[4] = W_list
        \/ n >= 2 /\ t[1] = W_enumerate
        \/ n >= 2 /\ t[1] = W_identify

\* An _is_entity_query that matches the query as typed.
IsEntityQueryAsTyped(query) == EntityPatternMatches(WordList(Strip(query)))

\* Generator._is_entity_query
IsEntityQuery(query) == EntityPatternMatches(WordList(Strip(Lower(query))))

\* ---- the model's answer ----
\* The text chat_completion returns is a sequence of lexemes: "fence" (the
\* three backquotes of a code fence), "json", " " (whitespace), "{}" (the
\* text of a JSON object), "[]" (the text of a JSON value that is not an
\* object) and "x" (anything else).
Fence == "fence"
Lexemes == {Fence, "json", " ", "{}", "[]", "x"}

\* response.strip() and the three fence removals of _generate_aggregated_response
Unfence(text) ==
    LET r0 == Strip(text)
        r1 == IF StartsWith(r0, <<Fence, "json">>) THEN Drop(r0, 2) ELSE r0
        r2 == IF StartsWith(r1, <<Fence>>) THEN Drop(r1, 1) ELSE r1
    IN  IF EndsWith(r2, <<Fence>>) THEN Take(r2, Len(r2) - 1) ELSE r2

\* json.loads(response.strip()): "dict", "value" (valid JSON, not an object)
\* or "error" (json.JSONDecodeError)
JsonLoads(text) ==
    LET t == Strip(text)
    IN  IF t = <<"{}">> THEN "dict"
        ELSE IF t = <<"[]">> THEN "value"
        ELSE "error"

\* The parse of _generate_aggregated_response: what it returns for the text,
\* obj being the object the text "{}" decodes to.
GenerateAggregatedResponse(text, obj) ==
    LET response == Unfence(text)
        loaded == JsonLoads(response)
    IN  IF loaded = "dict" THEN [kind |-> "dict", obj |-> obj]
        ELSE IF loaded = "value" THEN [kind |-> "value", obj |-> obj]
        ELSE [kind |-> "dict",
              obj |-> [answer |-> response, citations |-> <<>>, not_found |-> FALSE]]

\* A generator that does not look at the model's not_found flag.
ModelNotFoundIgnored(llm_response) == FALSE

\* llm_response.get("not_found", False)
ModelNotFound(llm_response) == llm_response.obj.not_found

\* Generator.generate after the model call: the Responses it may return
\* (one, but for a confidence half way between two hundredths), or a raise.
GenerateOutcomes(chunks, total_retrieved, llm_response) ==
    IF llm_response.kind # "dict"
    THEN {Raised("AttributeError")}   \* llm_response.get on a non-dict
    ELSE IF ModelNotFound(llm_response) THEN {NotFoundResponse(total_retrieved)}
    ELSE LET ex == ExtractCitations(llm_response.obj.citations, chunks)
         IN  { [kind |-> "response", answer |-> llm_response.obj.answer,
                citations |-> ex.citations,
                chunks_retrieved |-> total_retrieved,
                chunks_used |-> Len(ex.citations),
                confidence_score |-> c,
                quotes_verified |-> ex.verified_count,
                not_found |-> FALSE] :
               c \in CalculateConfidence(ScoresOf(chunks), ScoresOf(ex.citations)) }

NoLlm == [kind |-> "none", text |-> <<>>,
          obj |-> [answer |-> <<>>, citations |-> <<>>, not_found |-> FALSE]]

\* Generator.generate
Generate(query, rr_chunks, total_retrieved, max_sources, llm) ==
    LET chunks == Take(rr_chunks, max_sources)
        is_entity_query == IsEntityQuery(query)
        llm_response == IF is_entity_query
                        THEN GenerateAggregatedResponse(llm.text, llm.obj)
                        ELSE [kind |-> "dict", obj |-> llm.obj]
    IN  /\ phase = "generator" /\ g_call.op = "none"
        /\ IF chunks = <<>> THEN llm = NoLlm
           ELSE llm.kind = (IF is_entity_query THEN "text" ELSE "dict")
        /\ g_call' = [op |-> "generate", query |-> query, chunks |-> rr_chunks,
                      total_retrieved |-> total_retrieved, max_sources |-> max_sources,
                      is_entity_query |-> is_entity_query,
                      llm_calls |-> IF chunks = <<>> THEN 0 ELSE 1, llm |-> llm]
        /\ g_out' \in (IF chunks = <<>> THEN {NotFoundResponse(total_retrieved)}
                       ELSE GenerateOutcomes(chunks, total_retrieved, llm_response))
        /\ UNCHANGED <<phase, rvars, kvars, cvars, ivars>>

\* A direct call of Generator._extract_citations
ExtractCitationsCall(llm_citations, chunks) ==
    /\ phase = "citations" /\ g_call.op = "none"
    /\ g_call' = [op |-> "_extract_citations", llm_citations |-> llm_citations,
                  chunks |-> chunks]
    /\ g_out' = [kind |-> "citations"] @@ ExtractCitations(llm_citations, chunks)
    /\ UNCHANGED <<phase, rvars, kvars, cvars, ivars>>

\* A direct call of Generator._calculate_confidence, on the scores
CalculateConfidenceCall(chunk_scores, cit_scores) ==
    /\ phase = "confidence" /\ g_call.op = "none"
    /\ g_call' = [op |-> "_calculate_confidence", chunk_scores |-> chunk_scores,
                  cit_scores |-> cit_scores]
    /\ \E v \in CalculateConfidence(chunk_scores, cit_scores) :
          g_out' = [kind |-> "confidence", value |-> v]
    /\ UNCHANGED <<phase, rvars, kvars, cvars, ivars>>

\* ---- the inputs of the generator ----

MaxChunks == 2        \* chunks in a retrieval result
MaxCitations == 2     \* citations in a model answer
MaxQuoteLen == 3      \* characters of a quote of the exhaustive quote set
MaxSources == 2       \* max_sources
MaxTextLen == 3       \* lexemes of the text of a model answer
MaxConfLen == 3       \* scores in a list given to _calculate_confidence

\* "a b. c\nd": two sentences, the second one broken by a newline
Content1 == <<"a", " ", "b", ".", " ", "c", NL, "d">>
\* "b a a b a": one sentence longer than QuoteMaxLen
Content2 == <<"b", " ", "a", " ", "a", " ", "b", " ", "a">>

ChunkVariants == { [content |-> Content1, relevance_score |-> 80],
                   [content |-> Content2, relevance_score |-> 0] }

\* Retrieval results: the i-th chunk is of document i, page i.
ChunkListsUpTo(max) ==
    UNION { { [i \in 1..n |-> [content |-> f[i].content, document_name |-> i,
                               page_number |-> i,
                               relevance_score |-> f[i].relevance_score]] :
                f \in [1..n -> ChunkVariants] } : n \in 0..max }
ChunkLists == ChunkListsUpTo(MaxChunks)

StringsUpTo(alphabet, n) == UNION { [1..k -> alphabet] : k \in 0..n }

\* Quotes of the citation lists: a substring of Content1, its words in
\* another order, a word of neither content, and no quote.
ListQuotes == { <<"a", " ", "b">>, <<"b", " ", "a">>, <<"x">>, <<>> }
RichQuotes == StringsUpTo({"a", "b", "A", " ", "x"}, MaxQuoteLen)

CitationsOver(indexes, quotes, n) ==
    UNION { [1..k -> [source_index : indexes, verbatim_quote : quotes]] : k \in 0..n }

\* What the model may report to _extract_citations.
LlmCitationLists ==
    CitationsOver(0..(MaxChunks + 1), ListQuotes, MaxCitations)
        \cup CitationsOver(1..MaxChunks, RichQuotes, 1)

AnswerText == <<"the answer">>

\* The structured answers of generate()'s model call.
LlmObjects ==
    [answer : {AnswerText},
     citations : CitationsOver(1..2, {<<"a", " ", "b">>, <<"x">>}, MaxCitations),
     not_found : BOOLEAN]

Texts == StringsUpTo(Lexemes, MaxTextLen)

\* What the model may answer: a dict to generate_response, a text to
\* chat_completion (with the object its "{}" decodes to, when it is loaded).
LlmOutputs ==
    { [kind |-> "dict", text |-> <<>>, obj |-> o] : o \in LlmObjects }
      \cup UNION { { [kind |-> "text", text |-> t, obj |-> o] :
                      o \in IF JsonLoads(Unfence(t)) = "dict" THEN LlmObjects
                             ELSE {NoLlm.obj} } : t \in Texts }
      \cup {NoLlm}

\* "who is a": an entity query; "what is a": not one
GenQueries == { <<"w", "h", "o", " ", "i", "s", " ", "a">>,
                <<"W", "h", "a", "t", " ", "i", "s", " ", "a">> }

ConfScores == {0, 1, 50, GenScoreUnit}
ConfScoreLists == StringsUpTo(ConfScores, MaxConfLen)

InitGenerator(p) ==
    /\ phase = p
    /\ g_call = NoCall
    /\ g_out = NoCall
    /\ RetrIdle
    /\ ChunkIdle
    /\ RerankerIdle
    /\ IndexerIdle

NextGen ==
    /\ g_call.op = "none"
    /\ \E query \in GenQueries, rr_chunks \in ChunkLists, extra \in 0..1,
       max_sources \in 0..MaxSources, llm \in LlmOutputs :
          Generate(query, rr_chunks, Len(rr_chunks) + extra, max_sources, llm)

\* ---- the choice of the strategy ----

\* "Who are the managers?"
Q_WhoAre ==
    <<"W", "h", "o", " ", "a", "r", "e", " ", "t", "h", "e", " ", "m", "a",
    "n", "a", "g", "e", "r", "s", "?">>
\* "List the managers"
Q_List ==
    <<"L", "i", "s", "t", " ", "t", "h", "e", " ", "m", "a", "n", "a", "g",
    "e", "r", "s">>
\* "How many managers are there?"
Q_HowMany ==
    <<"H", "o", "w", " ", "m", "a", "n", "y", " ", "m", "a", "n", "a", "g",
    "e", "r", "s", " ", "a", "r", "e", " ", "t", "h", "e", "r", "e", "?">>
\* "Where are the managers?"
Q_Where ==
    <<"W", "h", "e", "r", "e", " ", "a", "r", "e", " ", "t", "h", "e", " ",
    "m", "a", "n", "a", "g", "e", "r", "s", "?">>
\* "  WHO IS a\n"
Q_Padded ==
    <<" ", " ", "W", "H", "O", " ", "I", "S", " ", "a", NL>>
\* "Who is"
Q_WhoIs ==
    <<"W", "h", "o", " ", "i", "s">>
\* "Show the list"
Q_ShowList ==
    <<"S", "h", "o", "w", " ", "t", "h", "e", " ", "l", "i", "s", "t">>
\* "Lists of managers"
Q_Lists ==
    <<"L", "i", "s", "t", "s", " ", "o", "f", " ", "m", "a", "n", "a", "g",
    "e", "r", "s">>
\* "What is the status?"
Q_Status ==
    <<"W", "h", "a", "t", " ", "i", "s", " ", "t", "h", "e", " ", "s", "t",
    "a", "t", "u", "s", "?">>

\* Queries given to generate() to see which strategy it takes.
StrategyQueries ==
    { Q_WhoAre, Q_List, Q_HowMany, Q_Where, Q_Padded, Q_WhoIs, Q_ShowList,
      Q_Lists, Q_Status } \cup GenQueries

\* What the model answers in these calls: an object, or a text that is one,
\* or a text that is none.
StrategyLlmObject == [answer |-> AnswerText, citations |-> <<>>, not_found |-> FALSE]
StrategyLlmOutputs ==
    { NoLlm,
      [kind |-> "dict", text |-> <<>>, obj |-> StrategyLlmObject],
      [kind |-> "text", text |-> <<"{}">>, obj |-> StrategyLlmObject],
      [kind |-> "text", text |-> <<"x">>, obj |-> NoLlm.obj] }

NextStrategy ==
    /\ g_call.op = "none"
    /\ \E query \in StrategyQueries, rr_chunks \in ChunkLists,
          max_sources \in 0..MaxSources, llm \in StrategyLlmOutputs :
          Generate(query, rr_chunks, Len(rr_chunks), max_sources, llm)

\* ---- Responses given to to_json_dict ----

JsonCitations ==
    [document_name : {1, 2}, page_number : {1, 2},
     verbatim_quote : {<<"a", " ", "b">>}, relevance_score : {0, 8808}]
\* confidence_score, in units of 1/ScoreUnit: 0.0, 0.1234, 0.125, 0.5,
\* 0.9951, 1.0
JsonConfidences == {0, 1234, 1250, 5000, 9951, ScoreUnit}
JsonMetadata ==
    [chunks_retrieved : {0, 3}, chunks_used : {0, 2}, processing_time_ms : {0, 1500},
     confidence_score : JsonConfidences, quotes_verified : {0, 1}]
Responses ==
    [answer : {AnswerText}, citations : StringsUpTo(JsonCitations, MaxCitations),
     query_text : {<<"w", "h", "o", " ", "i", "s", " ", "a">>},
     metadata : JsonMetadata, not_found : BOOLEAN]

NextJson ==
    /\ g_call.op = "none"
    /\ \E response \in Responses : ToJsonDictCall(response)

NextCite ==
    /\ g_call.op = "none"
    /\ \E llm_citations \in LlmCitationLists, chunks \in ChunkLists :
          ExtractCitationsCall(llm_citations, chunks)

\* Calls of _extract_citations in which the model reports nothing usable,
\* or one citation, on up to MaxSynthChunks chunks.
MaxSynthChunks == 4
SynthCitationLists ==
    { <<>>,
      <<[source_index |-> 0, verbatim_quote |-> <<"x">>]>>,
      <<[source_index |-> MaxSynthChunks + 2, verbatim_quote |-> <<"a", " ", "b">>],
        [source_index |-> 0, verbatim_quote |-> <<>>]>>,
      <<[source_index |-> 1, verbatim_quote |-> <<"x">>]>> }

NextSynth ==
    /\ g_call.op = "none"
    /\ \E llm_citations \in SynthCitationLists, chunks \in ChunkListsUpTo(MaxSynthChunks) :
          ExtractCitationsCall(llm_citations, chunks)

NextConf ==
    /\ g_call.op = "none"
    /\ \E chunk_scores \in ConfScoreLists, cit_scores \in ConfScoreLists :
          CalculateConfidenceCall(chunk_scores, cit_scores)

SpecStrategy == InitGenerator("generator") /\ [][NextStrategy]_vars
SpecJson == InitGenerator("json") /\ [][NextJson]_vars
SpecGen == InitGenerator("generator") /\ [][NextGen]_vars
SpecSynth == InitGenerator("citations") /\ [][NextSynth]_vars
SpecCite == InitGenerator("citations") /\ [][NextCite]_vars
SpecConf == InitGenerator("confidence") /\ [][NextConf]_vars

\* ---- properties of the generator ----

IsCiteCall == g_call.op = "_extract_citations"
IsGenerateCall == g_call.op = "generate"

\* The i-th reported citation has a 1-based source_index inside chunks.
InRange(cits, i, chunks) == cits[i].source_index >= 1 /\ cits[i].source_index <= Len(chunks)

\* It is in range and no earlier in-range citation had the same quote text.
Kept(cits, i, chunks) ==
    /\ InRange(cits, i, chunks)
    /\ ~\E j \in 1..(i - 1) :
          InRange(cits, j, chunks) /\ cits[j].verbatim_quote = cits[i].verbatim_quote

\* Its position among the emitted citations.
RankOf(cits, i, chunks) == Cardinality({ j \in 1..i : Kept(cits, j, chunks) })

\* quote, surrounding whitespace aside, occurs in content, whatever the case
CiSubstring(quote, content) == Contains(Strip(Lower(quote)), Lower(content))

TokenOverlapOk(quote, content) ==
    LET qw == Words(Lower(quote))
    IN  qw # {} /\ 10 * Cardinality(qw \cap Words(Lower(content))) >= 8 * Cardinality(qw)

Unverifiable(quote, content) ==
    ~CiSubstring(quote, content) /\ ~TokenOverlapOk(quote, content)

\* e is text of the content (line breaks read as spaces), possibly cut
\* short and marked with an ellipsis.
IsExcerpt(e, content) ==
    /\ e # <<>>
    /\ \/ Contains(e, ReplaceNewlines(content))
       \/ /\ EndsWith(e, Ellipsis)
          /\ Contains(Take(e, Len(e) - 3), ReplaceNewlines(content))

\* C1: in _extract_citations, a reported citation in range, not a duplicate,
\* whose quote is neither a case-insensitive substring of its chunk nor has
\* 80% of its tokens in it, is not counted in quotes_verified, and the quote
\* emitted for it is an excerpt of that chunk's content, not the model's text.
C1_UnverifiedQuoteReplaced ==
    IsCiteCall =>
        LET cits == g_call.llm_citations
            chunks == g_call.chunks
            kept == { i \in 1..Len(cits) : Kept(cits, i, chunks) }
            bad == { i \in kept :
                       Unverifiable(cits[i].verbatim_quote,
                                    chunks[cits[i].source_index].content) }
        IN  kept # {} =>
              /\ g_out.verified_count <= Cardinality(kept \ bad)
              /\ \A i \in bad :
                    IsExcerpt(g_out.citations[RankOf(cits, i, chunks)].verbatim_quote,
                              chunks[cits[i].source_index].content)

\* The text the parse works on cannot be loaded as the structured object.
Unparseable(text) == JsonLoads(Unfence(text)) # "dict"

\* C2: generate() on an entity/list query never raises because of the text
\* the chat call returned: when the text (code fences stripped) cannot be
\* parsed into the structured object, it returns a Response whose answer is
\* that text and whose citations are empty.
C2_MalformedOutputDegrades ==
    (IsGenerateCall /\ g_call.is_entity_query /\ g_call.llm_calls = 1
        /\ Unparseable(g_call.llm.text)) =>
            /\ g_out.kind = "response"
            /\ g_out.answer = Unfence(g_call.llm.text)
            /\ g_out.citations = <<>>

IsConfCall == g_call.op = "_calculate_confidence"

\* C4: _calculate_confidence returns a value in [0,1], and exactly 0 if and
\* only if the chunk list or the citation list is empty.
C4_ConfidenceRange ==
    IsConfCall =>
        /\ g_out.value >= 0 /\ g_out.value <= GenScoreUnit
        /\ (g_out.value = 0) <=> (g_call.chunk_scores = <<>> \/ g_call.cit_scores = <<>>)

\* Every score is 0, so only the source bonus keeps the confidence off 0.
C4_Witness ==
    /\ IsConfCall
    /\ Len(g_call.chunk_scores) >= 2 /\ Len(g_call.cit_scores) >= 2
    /\ \A i \in 1..Len(g_call.chunk_scores) : g_call.chunk_scores[i] = 0
    /\ \A i \in 1..Len(g_call.cit_scores) : g_call.cit_scores[i] = 0
    /\ g_out.value > 0

\* The model's answer was a dict with not_found set.
ModelSaidNotFound ==
    /\ g_call.llm_calls = 1
    /\ g_call.llm.obj.not_found
    /\ (g_call.llm.kind = "text" => ~Unparseable(g_call.llm.text))

\* C5: generate() returns the canonical not-found Response (the fixed text,
\* no citations, chunks_used 0, not_found, confidence 0) whenever the chunks
\* cut to max_sources are empty or the model's output has not_found set, and
\* makes no model call when there are no chunks.
C5_NotFoundShortCircuit ==
    IsGenerateCall =>
        LET no_chunks == Take(g_call.chunks, g_call.max_sources) = <<>>
        IN  /\ (no_chunks \/ ModelSaidNotFound) =>
                  /\ g_out.kind = "response"
                  /\ g_out.answer = NotFoundText
                  /\ g_out.citations = <<>>
                  /\ g_out.chunks_used = 0
                  /\ g_out.not_found
                  /\ g_out.confidence_score = 0
                  /\ g_out.chunks_retrieved = g_call.total_retrieved
            /\ no_chunks => g_call.llm_calls = 0

\* The model reports citations and still says not_found, for both strategies;
\* and a retrieval result with chunks is cut to nothing by max_sources = 0.
C5_Witness ==
    /\ IsGenerateCall
    /\ ModelSaidNotFound
    /\ g_call.llm.obj.citations # <<>>
    /\ g_call.is_entity_query
    /\ g_out.not_found

\* The reported citations that are kept and whose quote, as reported, occurs
\* in the content of their chunk, whatever the case.
SubstringQuotes(cits, chunks) ==
    { i \in 1..Len(cits) :
        /\ Kept(cits, i, chunks)
        /\ Contains(Lower(cits[i].verbatim_quote),
                    Lower(chunks[cits[i].source_index].content)) }

\* All the citations of is are emitted with the quote as reported, and all
\* are counted in quotes_verified.
VerifiedUnchanged(is) ==
    /\ g_out.verified_count >= Cardinality(is)
    /\ \A i \in is :
          g_out.citations[RankOf(g_call.llm_citations, i, g_call.chunks)].verbatim_quote
              = g_call.llm_citations[i].verbatim_quote

IsJsonCall == g_call.op = "to_json_dict"

\* C20: to_json_dict() of any Response contains every citation in order with
\* document_name, page_number, verbatim_quote and relevance_score unchanged,
\* the chunks_retrieved, chunks_used, quotes_verified and processing_time_ms
\* values unchanged, and confidence_score rounded to 2 decimals.
C20_JsonDict ==
    IsJsonCall =>
        LET response == g_call.response
            d == g_out.dict
            hundredth == ScoreUnit \div 100
        IN  /\ Len(d.citations) = Len(response.citations)
            /\ \A n \in 1..Len(response.citations) :
                  /\ d.citations[n].document_name = response.citations[n].document_name
                  /\ d.citations[n].page_number = response.citations[n].page_number
                  /\ d.citations[n].verbatim_quote = response.citations[n].verbatim_quote
                  /\ d.citations[n].relevance_score = response.citations[n].relevance_score
            /\ d.metadata.chunks_retrieved = response.metadata.chunks_retrieved
            /\ d.metadata.chunks_used = response.metadata.chunks_used
            /\ d.metadata.quotes_verified = response.metadata.quotes_verified
            /\ d.metadata.processing_time_ms = response.metadata.processing_time_ms
            /\ d.metadata.confidence_score % hundredth = 0
            /\ 2 * (d.metadata.confidence_score - response.metadata.confidence_score)
                  <= hundredth
            /\ 2 * (response.metadata.confidence_score - d.metadata.confidence_score)
                  <= hundredth

\* A Response of two different citations and a confidence of four decimals
\* has been written with the confidence at two.
C20_Witness ==
    /\ IsJsonCall
    /\ Len(g_call.response.citations) = 2
    /\ g_call.response.citations[1] # g_call.response.citations[2]
    /\ g_call.response.metadata.confidence_score = 9951
    /\ g_out.dict.metadata.confidence_score = ScoreUnit

\* The queries of StrategyQueries that match an entity/list pattern once
\* lower-cased and trimmed (re.search on each of ENTITY_QUERY_PATTERNS).
MatchingQueries ==
    { Q_WhoAre, Q_List, Q_HowMany, Q_Padded, Q_Status,
      <<"w", "h", "o", " ", "i", "s", " ", "a">> }

\* C19: generate() takes the aggregation strategy exactly when the
\* lower-cased, trimmed query matches an entity/list pattern, and the
\* standard strategy otherwise; "Who are the managers?", "List the managers"
\* and "How many managers are there?" take aggregation.
C19_StrategySelection ==
    (IsGenerateCall /\ g_call.llm_calls = 1) =>
        /\ g_call.is_entity_query <=> g_call.query \in MatchingQueries
        /\ g_call.llm.kind = (IF g_call.query \in MatchingQueries THEN "text" ELSE "dict")

\* The three queries of the scenario have been answered by aggregation.
C19_Witness ==
    /\ IsGenerateCall /\ g_call.llm_calls = 1
    /\ g_call.query = Q_HowMany
    /\ g_call.is_entity_query
    /\ g_call.llm.kind = "text"
    /\ g_out.kind = "response"

\* C21: _extract_citations emits exactly one citation, in the model's order,
\* for each reported citation whose 1-based source_index lies in
\* 1..len(chunks) and whose quote text has not been seen earlier, with the
\* document_name, page_number and relevance_score of chunks[source_index-1];
\* out-of-range and exact-duplicate entries are dropped, and an entry whose
\* quote fails validation is never dropped.
C21_OneCitationPerKeptEntry ==
    (IsCiteCall /\ \E i \in 1..Len(g_call.llm_citations) :
                      Kept(g_call.llm_citations, i, g_call.chunks)) =>
        LET cits == g_call.llm_citations
            chunks == g_call.chunks
        IN  /\ Len(g_out.citations) =
                  Cardinality({ i \in 1..Len(cits) : Kept(cits, i, chunks) })
            /\ \A i \in 1..Len(cits) :
                  Kept(cits, i, chunks) =>
                      LET c == g_out.citations[RankOf(cits, i, chunks)]
                          chunk == chunks[cits[i].source_index]
                      IN  /\ c.document_name = chunk.document_name
                          /\ c.page_number = chunk.page_number
                          /\ c.relevance_score = chunk.relevance_score

\* An entry out of range has been dropped and the next one, whose quote is
\* not in its chunk, has been emitted for the second chunk.
C21_Witness ==
    /\ IsCiteCall
    /\ Len(g_call.chunks) = 2
    /\ Len(g_call.llm_citations) = 2
    /\ g_call.llm_citations[1].source_index = 3
    /\ g_call.llm_citations[2].source_index = 2
    /\ Unverifiable(g_call.llm_citations[2].verbatim_quote, g_call.chunks[2].content)
    /\ Len(g_out.citations) = 1
    /\ g_out.citations[1].document_name = g_call.chunks[2].document_name
    /\ g_out.verified_count = 0

\* C22: if no reported citation survives and there are chunks, exactly
\* min(3, number of chunks) citations are synthesized from the top chunks in
\* order, and quotes_verified is the number of synthesized citations.
C22_SynthesizedCitations ==
    (/\ IsCiteCall
     /\ g_call.chunks # <<>>
     /\ \A i \in 1..Len(g_call.llm_citations) :
           ~Kept(g_call.llm_citations, i, g_call.chunks)) =>
        /\ Len(g_out.citations) = Min(3, Len(g_call.chunks))
        /\ \A n \in 1..Len(g_out.citations) :
              /\ g_out.citations[n].document_name = g_call.chunks[n].document_name
              /\ g_out.citations[n].page_number = g_call.chunks[n].page_number
              /\ g_out.citations[n].relevance_score = g_call.chunks[n].relevance_score
              /\ g_out.citations[n].verbatim_quote =
                    ExtractBestQuote(g_call.chunks[n].content, QuoteMaxLen)
        /\ g_out.verified_count = Len(g_out.citations)

\* Two entries out of range were reported on four chunks, and three
\* citations have been synthesized.
C22_Witness ==
    /\ IsCiteCall
    /\ Len(g_call.chunks) = 4
    /\ Len(g_call.llm_citations) = 2
    /\ Len(g_out.citations) = 3
    /\ g_out.citations[3].document_name = 3
    /\ g_out.verified_count = 3

\* C30: every Response generate() returns has
\* 0 <= quotes_verified <= chunks_used = number of citations, and has at least
\* one citation exactly when not_found is false.
C30_ResponseCounts ==
    (IsGenerateCall /\ g_out.kind = "response") =>
        /\ 0 <= g_out.quotes_verified
        /\ g_out.quotes_verified <= g_out.chunks_used
        /\ g_out.chunks_used = Len(g_out.citations)
        /\ (Len(g_out.citations) >= 1) <=> ~g_out.not_found

\* The model cited nothing usable and generate() answered with synthesized
\* citations, all of them counted as verified.
C30_Witness ==
    /\ IsGenerateCall
    /\ g_out.kind = "response"
    /\ ~g_out.not_found
    /\ Len(Take(g_call.chunks, g_call.max_sources)) = 2
    /\ \A i \in 1..Len(g_call.llm.obj.citations) :
          ~InRange(g_call.llm.obj.citations, i, Take(g_call.chunks, g_call.max_sources))
    /\ g_out.chunks_used = 2
    /\ g_out.quotes_verified = 2

\* The model cited two quotes of a chunk, one of which is not in it: fewer
\* quotes are verified than citations are returned.
C30_SomeUnverified ==
    /\ IsGenerateCall
    /\ g_out.kind = "response"
    /\ ~g_out.not_found
    /\ g_out.quotes_verified = 1
    /\ g_out.chunks_used = 2

\* C17: the Response returned by generate(query, retrieval_result,
\* max_sources) contains at most max_sources citations, for every model
\* output.
C17_AtMostMaxSourcesCitations ==
    (IsGenerateCall /\ g_out.kind = "response") =>
        Len(g_out.citations) <= g_call.max_sources

\* C13 as stated: in _extract_citations every reported quote (source_index in
\* range, not a duplicate) that is a case-insensitive substring of the content
\* of its chunk is counted in quotes_verified and is emitted unchanged.
C13_SubstringVerifiedAnyQuote ==
    IsCiteCall => VerifiedUnchanged(SubstringQuotes(g_call.llm_citations, g_call.chunks))

\* C13, amended: the same for every reported quote that is not empty.
C13_SubstringVerified ==
    IsCiteCall =>
        VerifiedUnchanged({ i \in SubstringQuotes(g_call.llm_citations, g_call.chunks) :
                              g_call.llm_citations[i].verbatim_quote # <<>> })

\* A quote that matches its chunk only when the case is ignored.
C13_Witness ==
    /\ IsCiteCall
    /\ \E i \in SubstringQuotes(g_call.llm_citations, g_call.chunks) :
          /\ g_call.llm_citations[i].verbatim_quote # <<>>
          /\ ~Contains(g_call.llm_citations[i].verbatim_quote,
                       g_call.chunks[g_call.llm_citations[i].source_index].content)
    /\ g_out.verified_count = 1

(***************************************************************************)
(*                               CHUNKER                                   *)
(***************************************************************************)
\* The size limits of the Chunker, scaled down: they keep the order of the
\* code's limits (50 < 2000 < 12000 < 24000).
MIN_CHUNK_SIZE == 2          \* 50
FALLBACK_CHUNK_SIZE == 4     \* 2000
MAX_CHUNK_INPUT_CHARS == 6   \* 12000
MAX_EMBEDDING_CHARS == 7     \* 24000
EMBEDDING_BATCH_SIZE == 2    \* 50

ParaSep == <<NL, NL>>

\* The sentence separators of _split_oversized_chunk, in its order.
SentenceSeps == << <<".", " ">>, <<".", NL>>, <<"?", " ">>, <<"!", NL>> >>

\* Chunk(content, page_number, chunk_index), before it is embedded
MkChunk(content, page_number, chunk_index) ==
    [content |-> content, page_number |-> page_number, chunk_index |-> chunk_index]

\* The for loop over the separators: the split point after the first
\* separator whose last occurrence inside the limit lies past half the limit,
\* the limit itself (a hard cut) if there is none.
RECURSIVE SentenceSplitPoint(_, _)
SentenceSplitPoint(content, k) ==
    IF k > Len(SentenceSeps) THEN MAX_EMBEDDING_CHARS
    ELSE LET sep == SentenceSeps[k]
             sent_break == RFind(content, sep, MAX_EMBEDDING_CHARS)
         IN  IF sent_break > MAX_EMBEDDING_CHARS \div 2
             THEN sent_break + Len(sep)
             ELSE SentenceSplitPoint(content, k + 1)

\* The split point of a content longer than the limit.
SplitPoint(content) ==
    LET para_break == RFind(content, ParaSep, MAX_EMBEDDING_CHARS)
    IN  IF para_break > MAX_EMBEDDING_CHARS \div 2
        THEN para_break
        ELSE SentenceSplitPoint(content, 1)

\* The while loop of _split_oversized_chunk; chunk_idx is Len(sub_chunks),
\* as both grow together.
RECURSIVE SplitLoop(_, _, _)
SplitLoop(content, chunk, sub_chunks) ==
    IF content = <<>> THEN sub_chunks
    ELSE LET whole == Len(content) <= MAX_EMBEDDING_CHARS
             split_point == SplitPoint(content)
             piece == IF whole THEN content ELSE Strip(Take(content, split_point))
             rest == IF whole THEN <<>> ELSE Strip(Drop(content, split_point))
             chunk_idx == Len(sub_chunks)
         IN  SplitLoop(rest, chunk,
                 IF piece # <<>> /\ Len(piece) >= MIN_CHUNK_SIZE
                 THEN Append(sub_chunks,
                             MkChunk(piece, chunk.page_number,
                                     chunk.chunk_index + chunk_idx))
                 ELSE sub_chunks)

\* Chunker._split_oversized_chunk
SplitOversizedChunk(chunk) ==
    IF Len(chunk.content) <= MAX_EMBEDDING_CHARS THEN <<chunk>>
    ELSE LET sub_chunks == SplitLoop(chunk.content, chunk, <<>>)
         IN  IF sub_chunks # <<>> THEN sub_chunks ELSE <<chunk>>

\* The for loop of _fallback_chunk over the paragraphs; st holds
\* current_chunk, chunk_index and chunks.
RECURSIVE FallbackLoop(_, _, _, _)
FallbackLoop(paragraphs, i, page_number, st) ==
    IF i > Len(paragraphs) THEN st
    ELSE LET para == Strip(paragraphs[i])
             flush == /\ st.current_chunk # <<>>
                      /\ Len(st.current_chunk) + Len(para) > FALLBACK_CHUNK_SIZE
             save == Len(st.current_chunk) >= MIN_CHUNK_SIZE
         IN  IF para = <<>> THEN FallbackLoop(paragraphs, i + 1, page_number, st)
             ELSE IF flush
             THEN FallbackLoop(paragraphs, i + 1, page_number,
                      [current_chunk |-> para,
                       chunk_index |-> IF save THEN st.chunk_index + 1
                                       ELSE st.chunk_index,
                       chunks |-> IF save
                                  THEN Append(st.chunks,
                                              MkChunk(Strip(st.current_chunk),
                                                      page_number, st.chunk_index))
                                  ELSE st.chunks])
             ELSE FallbackLoop(paragraphs, i + 1, page_number,
                      [st EXCEPT !.current_chunk =
                          IF st.current_chunk # <<>>
                          THEN st.current_chunk \o ParaSep \o para
                          ELSE para])

\* Chunker._fallback_chunk
FallbackChunk(text, page_number, start_chunk_index) ==
    LET st == FallbackLoop(Split(text, ParaSep), 1, page_number,
                           [current_chunk |-> <<>>,
                            chunk_index |-> start_chunk_index,
                            chunks |-> <<>>])
    IN  IF st.current_chunk # <<>> /\ Len(st.current_chunk) >= MIN_CHUNK_SIZE
        THEN Append(st.chunks,
                    MkChunk(Strip(st.current_chunk), page_number, st.chunk_index))
        ELSE st.chunks

\* What client.chunk_text may do for a page: raise, or return segments.
LlmRaises == [kind |-> "raise", segments |-> <<>>]
LlmNotCalled == [kind |-> "none", segments |-> <<>>]
LlmSegments(segments) == [kind |-> "segments", segments |-> segments]

\* The for loop of _chunk_text over enumerate(llm_chunks); i is 0-based.
RECURSIVE LlmChunkLoop(_, _, _, _, _)
LlmChunkLoop(llm_chunks, i, page_number, start_chunk_index, chunks) ==
    IF i >= Len(llm_chunks) THEN chunks
    ELSE LET content == Strip(llm_chunks[i + 1])
         IN  LlmChunkLoop(llm_chunks, i + 1, page_number, start_chunk_index,
                 IF Len(content) >= MIN_CHUNK_SIZE
                 THEN Append(chunks,
                             MkChunk(content, page_number, start_chunk_index + i))
                 ELSE chunks)

\* The model is asked only for a text within MAX_CHUNK_INPUT_CHARS.
LlmCalled(text) == Len(text) <= MAX_CHUNK_INPUT_CHARS

\* A _chunk_text that returns what the model path gave, without fallback.
ChunkTextNoFallback(text, page_number, start_chunk_index, llm) ==
    IF LlmCalled(text) /\ llm.kind = "segments"
    THEN LlmChunkLoop(llm.segments, 0, page_number, start_chunk_index, <<>>)
    ELSE <<>>

\* Chunker._chunk_text, llm being what the model does if it is called
ChunkText(text, page_number, start_chunk_index, llm) ==
    LET chunks == IF LlmCalled(text) /\ llm.kind = "segments"
                  THEN LlmChunkLoop(llm.segments, 0, page_number,
                                    start_chunk_index, <<>>)
                  ELSE <<>>
    IN  IF chunks # <<>> THEN chunks
        ELSE FallbackChunk(text, page_number, start_chunk_index)

\* A chunk_pages that also skips a page of exactly MIN_CHUNK_SIZE characters.
PageSkippedAtMinimum(content) ==
    content = <<>> \/ Len(Strip(content)) <= MIN_CHUNK_SIZE

\* The page is skipped by chunk_pages.
PageSkipped(content) == content = <<>> \/ Len(Strip(content)) < MIN_CHUNK_SIZE

\* The for loop of chunk_pages over the pages; st holds all_chunks and
\* chunk_index. Page i has page_number i.
RECURSIVE PagesLoop(_, _, _)
PagesLoop(pages, i, st) ==
    IF i > Len(pages) THEN st
    ELSE IF PageSkipped(pages[i].text) THEN PagesLoop(pages, i + 1, st)
    ELSE LET page_chunks == ChunkText(pages[i].text, i, st.chunk_index, pages[i].llm)
         IN  PagesLoop(pages, i + 1,
                 [all_chunks |-> st.all_chunks \o page_chunks,
                  chunk_index |-> st.chunk_index + Len(page_chunks)])

\* processed_chunks of _add_embeddings: every chunk, split if oversized
RECURSIVE ProcessedChunks(_)
ProcessedChunks(chunks) ==
    IF chunks = <<>> THEN <<>>
    ELSE SplitOversizedChunk(Head(chunks)) \o ProcessedChunks(Tail(chunks))

\* The number of batches of range(0, n, EMBEDDING_BATCH_SIZE)
BatchCount(n) == (n + EMBEDDING_BATCH_SIZE - 1) \div EMBEDDING_BATCH_SIZE

\* The texts of batch b (1-based): processed_chunks[i : i + EMBEDDING_BATCH_SIZE]
BatchTexts(processed_chunks, b) ==
    LET first == (b - 1) * EMBEDDING_BATCH_SIZE + 1
        last == Min(b * EMBEDDING_BATCH_SIZE, Len(processed_chunks))
    IN  [j \in 1..(last - first + 1) |-> processed_chunks[first + j - 1].content]

\* chunk.embedding = embedding; chunk.estimate_tokens()
Embedded(chunk) ==
    [content |-> chunk.content, page_number |-> chunk.page_number,
     chunk_index |-> chunk.chunk_index, embedded |-> TRUE,
     token_count |-> Len(chunk.content) \div 4]

\* An _add_embeddings that logs a failed batch and goes on with the next.
AddEmbeddingsSkipFailed(chunks, fail_batch) ==
    LET processed_chunks == ProcessedChunks(chunks)
        n == BatchCount(Len(processed_chunks))
        first == (fail_batch - 1) * EMBEDDING_BATCH_SIZE + 1
        last == fail_batch * EMBEDDING_BATCH_SIZE
        done == { j \in 1..Len(processed_chunks) :
                    fail_batch \notin 1..n \/ j < first \/ j > last }
    IN  [kind |-> "chunks",
         chunks |-> [j \in 1..Len(processed_chunks) |->
                       IF j \in done THEN Embedded(processed_chunks[j])
                       ELSE [Embedded(processed_chunks[j]) EXCEPT !.embedded = FALSE]],
         requested |-> [b \in 1..n |-> BatchTexts(processed_chunks, b)]]

\* Chunker._add_embeddings for a non-empty list; the provider raises at its
\* fail_batch-th call (never if fail_batch is 0). requested lists the
\* batches it was asked for.
AddEmbeddings(chunks, fail_batch) ==
    LET processed_chunks == ProcessedChunks(chunks)
        n == BatchCount(Len(processed_chunks))
    IN  IF fail_batch \in 1..n
        THEN [kind |-> "raised", error |-> "EmbeddingError",
              requested |-> [b \in 1..fail_batch |-> BatchTexts(processed_chunks, b)]]
        ELSE [kind |-> "chunks",
              chunks |-> [j \in 1..Len(processed_chunks) |-> Embedded(processed_chunks[j])],
              requested |-> [b \in 1..n |-> BatchTexts(processed_chunks, b)]]

\* Chunker.chunk_pages
ChunkPages(pages, fail_batch) ==
    LET all_chunks == PagesLoop(pages, 1, [all_chunks |-> <<>>, chunk_index |-> 0]).all_chunks
    IN  IF all_chunks = <<>>
        THEN [kind |-> "chunks", chunks |-> <<>>, requested |-> <<>>]
        ELSE AddEmbeddings(all_chunks, fail_batch)

\* A call of chunk_pages
ChunkPagesCall(pages, fail_batch) ==
    /\ phase = "chunker" /\ k_call.op = "none"
    /\ k_call' = [op |-> "chunk_pages", pages |-> pages, fail_batch |-> fail_batch]
    /\ k_out' = ChunkPages(pages, fail_batch)
    /\ UNCHANGED <<phase, rvars, gvars, cvars, ivars>>

\* A direct call of _chunk_text; llm_calls counts the calls of the model.
ChunkTextCall(text, page_number, start_chunk_index, llm) ==
    /\ phase = "chunk_text" /\ k_call.op = "none"
    /\ k_call' = [op |-> "_chunk_text", text |-> text, page_number |-> page_number,
                  start_chunk_index |-> start_chunk_index, llm |-> llm]
    /\ k_out' = [kind |-> "chunks",
                 chunks |-> ChunkText(text, page_number, start_chunk_index, llm),
                 llm_calls |-> IF LlmCalled(text) THEN 1 ELSE 0]
    /\ UNCHANGED <<phase, rvars, gvars, cvars, ivars>>

\* A direct call of _split_oversized_chunk
SplitOversizedChunkCall(chunk) ==
    /\ phase = "split" /\ k_call.op = "none"
    /\ k_call' = [op |-> "_split_oversized_chunk", chunk |-> chunk]
    /\ k_out' = [kind |-> "chunks", chunks |-> SplitOversizedChunk(chunk)]
    /\ UNCHANGED <<phase, rvars, gvars, cvars, ivars>>

\* ---- the inputs of the chunker ----

MaxPages == 2       \* pages of a document
MaxSegments == 2    \* segments the model returns for a page
MaxSplitLen == 9    \* characters of a content given to _split_oversized_chunk
MaxFailBatch == 2   \* the latest provider call that may raise

\* Segments the model may return: too short, long enough, and oversized.
SegShort == <<" ", "a">>
SegOk == <<"a", "b", " ", "c", "d">>
SegBig == <<"a", "a", "a", "a", " ", "a", "a", "a", "a">>
SegmentLists == StringsUpTo({SegShort, SegOk, SegBig}, MaxSegments)
\* A segment of exactly MIN_CHUNK_SIZE characters, once trimmed.
SegMin == <<"a", "b", " ">>

\* Page texts: too short to chunk; two paragraphs, within
\* MAX_CHUNK_INPUT_CHARS; three paragraphs, beyond it; one oversized paragraph.
TextShort == <<"a", " ">>
TextNormal == <<"a", "b", NL, NL, "c", "d">>
TextLong == <<"a", "b", NL, NL, "c", "d", NL, NL, "a", "b">>
TextBig == <<"a", "a", "a", ".", " ", "a", "a", "a", "a">>
\* A page of exactly MIN_CHUNK_SIZE characters, once trimmed.
TextMin == <<" ", "a", "b">>

\* A page and what the model does for it (nothing if it is not asked; for
\* the last input, what it would return for a page that is never sent).
PageSegmentLists ==
    { <<>>, <<SegOk>>, <<SegBig>>, <<SegShort, SegOk>>, <<SegOk, SegBig>>,
      <<SegBig, SegOk>>, <<SegOk, SegShort>> }
PageInputs ==
    { [text |-> t, llm |-> LlmNotCalled] : t \in {TextShort, TextLong, TextBig} }
      \cup { [text |-> TextNormal, llm |-> l] :
               l \in {LlmRaises} \cup { LlmSegments(g) : g \in PageSegmentLists } }
      \cup { [text |-> TextMin, llm |-> LlmRaises],
              [text |-> TextMin, llm |-> LlmSegments(<<SegMin>>)],
              [text |-> TextShort, llm |-> LlmSegments(<<SegMin>>)] }

PageLists == StringsUpTo(PageInputs, MaxPages)

\* Contents of a chunk as the chunker builds them: trimmed, and of at least
\* MIN_CHUNK_SIZE characters.
SplitAlphabet == {"a", " ", NL, "."}
SplitContents ==
    { c \in UNION { [1..n -> SplitAlphabet] : n \in MIN_CHUNK_SIZE..MaxSplitLen } :
        ~IsWs(c[1]) /\ ~IsWs(c[Len(c)]) }

InitChunker(p) ==
    /\ phase = p
    /\ ChunkIdle
    /\ RetrIdle
    /\ GenIdle
    /\ RerankerIdle
    /\ IndexerIdle

NextChunk ==
    /\ k_call.op = "none"
    /\ \E pages \in PageLists, fail_batch \in 0..MaxFailBatch :
          ChunkPagesCall(pages, fail_batch)

NextSplit ==
    /\ k_call.op = "none"
    /\ \E content \in SplitContents, chunk_index \in 0..1 :
          SplitOversizedChunkCall(MkChunk(content, 1, chunk_index))

\* What the model does, or would do, for the text given to _chunk_text.
LlmOutcomes ==
    {LlmRaises} \cup { LlmSegments(g) : g \in SegmentLists \cup {<<SegMin>>} }

NextChunkText ==
    /\ k_call.op = "none"
    /\ \E text \in {TextShort, TextMin, TextNormal, TextLong, TextBig},
          llm \in LlmOutcomes, start_chunk_index \in 0..1 :
          ChunkTextCall(text, 1, start_chunk_index, llm)

SpecChunk == InitChunker("chunker") /\ [][NextChunk]_vars
SpecChunkText == InitChunker("chunk_text") /\ [][NextChunkText]_vars
SpecSplit == InitChunker("split") /\ [][NextSplit]_vars

\* ---- properties of the chunker ----

IsChunkPagesCall == k_call.op = "chunk_pages"
IsSplitCall == k_call.op = "_split_oversized_chunk"

\* C3: within the list chunk_pages returns for a document, chunk_index is
\* strictly increasing in list order, also when short model segments are
\* dropped and oversized chunks are re-split.
C3_ChunkIndexIncreasing ==
    (IsChunkPagesCall /\ k_out.kind = "chunks") =>
        \A i \in 1..(Len(k_out.chunks) - 1) :
            k_out.chunks[i].chunk_index < k_out.chunks[i + 1].chunk_index

\* The characters of s that are not whitespace, in order.
NonWs(s) == SelectSeq(s, LAMBDA c : ~IsWs(c))

RECURSIVE ConcatContents(_)
ConcatContents(chunks) ==
    IF chunks = <<>> THEN <<>>
    ELSE Head(chunks).content \o ConcatContents(Tail(chunks))

\* C9: for a chunk whose content exceeds MAX_EMBEDDING_CHARS, the contents of
\* the pieces _split_oversized_chunk returns, concatenated in order, are the
\* original content but for whitespace: no other text is lost or duplicated.
C9_SplitReconstructs ==
    (IsSplitCall /\ Len(k_call.chunk.content) > MAX_EMBEDDING_CHARS) =>
        NonWs(ConcatContents(k_out.chunks)) = NonWs(k_call.chunk.content)

\* C10: every piece _split_oversized_chunk returns, which is what
\* _add_embeddings sends to the embedding provider, has a content of at most
\* MAX_EMBEDDING_CHARS characters.
C10_PiecesWithinLimit ==
    IsSplitCall =>
        \A i \in 1..Len(k_out.chunks) :
            Len(k_out.chunks[i].content) <= MAX_EMBEDDING_CHARS

\* The texts of all the batches asked for, in the order they were sent.
RECURSIVE Flatten(_)
Flatten(batches) ==
    IF batches = <<>> THEN <<>> ELSE Head(batches) \o Flatten(Tail(batches))

\* The contents chunk_pages would embed if the provider never failed.
AllTexts(pages) == Flatten(ChunkPages(pages, 0).requested)

\* The provider raised during this call of chunk_pages.
ProviderRaised ==
    /\ IsChunkPagesCall
    /\ k_call.fail_batch \in 1..BatchCount(Len(AllTexts(k_call.pages)))

\* C12: _add_embeddings asks for the embeddings of consecutive batches of at
\* most EMBEDDING_BATCH_SIZE chunks, in order; if a batch call raises, no
\* later batch is asked for, the failed one is not asked for again, the
\* exception leaves chunk_pages and no chunk is returned.
C12_BatchesAndFailure ==
    IsChunkPagesCall =>
        LET req == k_out.requested
            all == AllTexts(k_call.pages)
        IN  /\ \A b \in 1..Len(req) :
                  /\ Len(req[b]) >= 1 /\ Len(req[b]) <= EMBEDDING_BATCH_SIZE
                  /\ b < Len(req) => Len(req[b]) = EMBEDDING_BATCH_SIZE
            /\ Flatten(req) = SubSeq(all, 1, Len(Flatten(req)))
            /\ IF ProviderRaised
               THEN /\ k_out.kind = "raised"
                    /\ "chunks" \notin DOMAIN k_out
                    /\ Len(req) = k_call.fail_batch
               ELSE /\ k_out.kind = "chunks"
                    /\ Flatten(req) = all
                    /\ Len(k_out.chunks) = Len(all)
                    /\ \A j \in 1..Len(all) :
                          k_out.chunks[j].content = all[j] /\ k_out.chunks[j].embedded

\* The second of at least three batches fails.
C12_Witness ==
    /\ ProviderRaised
    /\ k_call.fail_batch = 2
    /\ BatchCount(Len(AllTexts(k_call.pages))) >= 3
    /\ k_out.kind = "raised"
    /\ Len(k_out.requested) = 2

\* The output has a chunk of page i with this content.
HasChunk(i, content) ==
    \E j \in 1..Len(k_out.chunks) :
        k_out.chunks[j].page_number = i /\ k_out.chunks[j].content = content

IsChunkTextCall == k_call.op = "_chunk_text"

\* The model gave no segment of at least MIN_CHUNK_SIZE trimmed characters.
NoUsableSegment(llm) ==
    \A n \in 1..Len(llm.segments) : Len(Strip(llm.segments[n])) < MIN_CHUNK_SIZE

\* C15: in _chunk_text, if the model call raises or returns no segment of at
\* least MIN_CHUNK_SIZE trimmed characters, the page is chunked by the
\* paragraph fallback and no exception escapes; a text longer than
\* MAX_CHUNK_INPUT_CHARS is never sent to the model.
C15_FallbackOnModelFailure ==
    IsChunkTextCall =>
        /\ k_out.kind = "chunks"
        /\ Len(k_call.text) > MAX_CHUNK_INPUT_CHARS =>
              /\ k_out.llm_calls = 0
              /\ k_out.chunks = FallbackChunk(k_call.text, k_call.page_number,
                                              k_call.start_chunk_index)
        /\ (k_call.llm.kind = "raise" \/ NoUsableSegment(k_call.llm)) =>
              k_out.chunks = FallbackChunk(k_call.text, k_call.page_number,
                                           k_call.start_chunk_index)

\* The model raises for a text it is asked about; the fallback gives a chunk.
C15_Witness ==
    /\ IsChunkTextCall
    /\ k_call.llm.kind = "raise"
    /\ k_out.llm_calls = 1
    /\ k_out.chunks # <<>>

\* _chunk_text went on to _fallback_chunk: the model was not asked, raised, or
\* gave no usable segment.
FallbackRan ==
    /\ IsChunkTextCall
    /\ ChunkTextNoFallback(k_call.text, k_call.page_number,
                           k_call.start_chunk_index, k_call.llm) = <<>>

\* C26: every chunk the paragraph fallback produces has a content of at most
\* FALLBACK_CHUNK_SIZE characters, for every page text.
C26_FallbackChunkCapped ==
    FallbackRan =>
        \A i \in 1..Len(k_out.chunks) :
            Len(k_out.chunks[i].content) <= FALLBACK_CHUNK_SIZE

(***************************************************************************)
(*                  THE PROCESS-WIDE RERANKER (concurrency)                *)
(***************************************************************************)
\* Threads of one process ask for the reranker, through get_reranker or
\* through Retriever._get_reranker of a Retriever instance. The code takes
\* no lock, so threads interleave between any two statements; a step is one
\* read or write of _reranker or of self._reranker, or the construction.

NumThreads == 2      \* threads of the process
NumRetrievers == 2   \* Retriever instances they may use
MaxCalls == 2        \* calls a thread makes

Threads == 1..NumThreads
Retrievers == 1..NumRetrievers

IdleThread == [pc |-> "idle", op |-> "none", retriever |-> 0, val |-> 0,
               ret |-> 0, calls |-> 0]

\* A thread calls get_reranker(model_name).
CallGetReranker(t) ==
    /\ phase = "reranker"
    /\ thread[t].pc = "idle" /\ thread[t].calls < MaxCalls
    /\ thread' = [thread EXCEPT ![t] =
          [pc |-> "global_check", op |-> "get_reranker", retriever |-> 0,
           val |-> 0, ret |-> 0, calls |-> thread[t].calls + 1]]
    /\ UNCHANGED <<phase, rvars, gvars, kvars, ivars, reranker, constructed, self_reranker>>

\* A thread calls self._get_reranker() of Retriever r.
CallSelfGetReranker(t, r) ==
    /\ phase = "reranker"
    /\ thread[t].pc = "idle" /\ thread[t].calls < MaxCalls
    /\ thread' = [thread EXCEPT ![t] =
          [pc |-> "self_check", op |-> "_get_reranker", retriever |-> r,
           val |-> 0, ret |-> 0, calls |-> thread[t].calls + 1]]
    /\ UNCHANGED <<phase, rvars, gvars, kvars, ivars, reranker, constructed, self_reranker>>

\* if self._reranker is None:
SelfCheck(t) ==
    /\ thread[t].pc = "self_check"
    /\ thread' = [thread EXCEPT ![t].pc =
          IF self_reranker[thread[t].retriever] = 0 THEN "global_check"
          ELSE "self_return"]
    /\ UNCHANGED <<phase, rvars, gvars, kvars, ivars, reranker, constructed, self_reranker>>

\* if _reranker is None:
GlobalCheck(t) ==
    /\ thread[t].pc = "global_check"
    /\ thread' = [thread EXCEPT ![t].pc =
          IF reranker = 0 THEN "construct" ELSE "global_return"]
    /\ UNCHANGED <<phase, rvars, gvars, kvars, ivars, reranker, constructed, self_reranker>>

\* CrossEncoder(model_name): a new instance, not yet stored
Construct(t) ==
    /\ thread[t].pc = "construct"
    /\ constructed' = constructed + 1
    /\ thread' = [thread EXCEPT ![t].pc = "assign", ![t].val = constructed + 1]
    /\ UNCHANGED <<phase, rvars, gvars, kvars, ivars, reranker, self_reranker>>

\* _reranker = <the new instance>
AssignGlobal(t) ==
    /\ thread[t].pc = "assign"
    /\ reranker' = thread[t].val
    /\ thread' = [thread EXCEPT ![t].pc = "global_return"]
    /\ UNCHANGED <<phase, rvars, gvars, kvars, ivars, constructed, self_reranker>>

\* return _reranker, to the caller of get_reranker
GlobalReturn(t) ==
    /\ thread[t].pc = "global_return"
    /\ thread' = [thread EXCEPT ![t] =
          IF thread[t].op = "get_reranker"
          THEN [@ EXCEPT !.pc = "idle", !.val = reranker, !.ret = reranker]
          ELSE [@ EXCEPT !.pc = "self_assign", !.val = reranker]]
    /\ UNCHANGED <<phase, rvars, gvars, kvars, ivars, reranker, constructed, self_reranker>>

\* self._reranker = get_reranker(...)
SelfAssign(t) ==
    /\ thread[t].pc = "self_assign"
    /\ self_reranker' = [self_reranker EXCEPT ![thread[t].retriever] = thread[t].val]
    /\ thread' = [thread EXCEPT ![t].pc = "self_return"]
    /\ UNCHANGED <<phase, rvars, gvars, kvars, ivars, reranker, constructed>>

\* return self._reranker
SelfReturn(t) ==
    /\ thread[t].pc = "self_return"
    /\ thread' = [thread EXCEPT ![t].pc = "idle",
                                ![t].ret = self_reranker[thread[t].retriever]]
    /\ UNCHANGED <<phase, rvars, gvars, kvars, ivars, reranker, constructed, self_reranker>>

InitReranker ==
    /\ phase = "reranker"
    /\ reranker = 0
    /\ constructed = 0
    /\ self_reranker = [r \in Retrievers |-> 0]
    /\ thread = [t \in Threads |-> IdleThread]
    /\ RetrIdle
    /\ GenIdle
    /\ ChunkIdle
    /\ IndexerIdle

NextReranker ==
    \E t \in Threads :
        \/ CallGetReranker(t)
        \/ \E r \in Retrievers : CallSelfGetReranker(t, r)
        \/ SelfCheck(t)
        \/ GlobalCheck(t)
        \/ Construct(t)
        \/ AssignGlobal(t)
        \/ GlobalReturn(t)
        \/ SelfAssign(t)
        \/ SelfReturn(t)

SpecReranker == InitReranker /\ [][NextReranker]_vars

\* ---- properties of the reranker ----

\* C11: across any interleaving of concurrent get_reranker and
\* Retriever._get_reranker calls in one process, the cross-encoder is
\* constructed at most once and every caller receives the same instance.
C11_ConstructedOnce ==
    /\ constructed <= 1
    /\ \A t, u \in Threads :
          (thread[t].ret # 0 /\ thread[u].ret # 0) => thread[t].ret = thread[u].ret


\* ======================================================================
\* INDEXER  (src/src/services/indexer.py)
\* ======================================================================

MaxIndexCalls == 2    \* index_document calls in a behaviour

\* No Document (None)
NoDoc == [id |-> 0]

\* The metadata store (src/lib/metadata_store.py) keeps Document records:
\* add appends one, update replaces the record of the same id, get_by_path
\* gives a record of that path, or None.
MetaAdd(store, doc) == Append(store, doc)
MetaUpdate(store, doc) ==
    [n \in 1..Len(store) |-> IF store[n].id = doc.id THEN doc ELSE store[n]]
GetByPath(store, file_path) ==
    IF \E n \in 1..Len(store) : store[n].file_path = file_path
    THEN { store[n] : n \in { m \in 1..Len(store) : store[m].file_path = file_path } }
    ELSE {NoDoc}

\* The vector store (src/lib/vector_store.py): add_chunks adds the chunks,
\* delete_by_document_id removes those of one document.
AddChunks(store, chunks) == store \cup chunks
DeleteByDocumentId(store, document_id) ==
    { c \in store : c.document_id # document_id }

\* Document(...): a new record; uuid4 ids are numbered in creation order.
\* new_id is unused so far (every id ever made is in the store).
Document(new_id, file_path, status, error_message) ==
    [id |-> new_id, file_path |-> file_path, status |-> status,
     error_message |-> error_message, chunk_count |-> 0]

IndexingResult(document, success, error_message, chunks_created) ==
    [document |-> document, success |-> success,
     error_message |-> error_message, chunks_created |-> chunks_created]

\* The chunks chunk_pages made at call call_no, as the vector store holds
\* them: each is a new object of the document.
StoredChunks(chunks, document_id, call_no) ==
    { [document_id |-> document_id, call |-> call_no, pos |-> j,
       page_number |-> chunks[j].page_number] : j \in 1..Len(chunks) }

\* What one call leaves: the two stores, the result, the store operations
\* issued on the vector store in order.
Outcome(ms, vs, result, ops) ==
    [metadata_store |-> ms, vector_store |-> vs, result |-> result, ops |-> ops]

\* Indexer._create_failed_document, and the IndexingResult of the handler
CreateFailedDocument(ms, vs, ops, file_path, error_message, existing) ==
    IF existing # NoDoc
    THEN LET doc == [existing EXCEPT !.status = "failed",
                                     !.error_message = error_message]
         IN  Outcome(MetaUpdate(ms, doc), vs,
                     IndexingResult(doc, FALSE, error_message, 0), ops)
    ELSE LET doc == Document(Len(ms) + 1, file_path, "failed", error_message)
         IN  Outcome(MetaAdd(ms, doc), vs,
                     IndexingResult(doc, FALSE, error_message, 0), ops)

\* A re-index that leaves the chunks of the previous pass in the store.
OldChunksKept(vs, existing) == vs

\* "Remove old chunks if reindexing": vector_store.delete_by_document_id(doc.id)
OldChunksRemoved(vs, existing) ==
    IF existing # NoDoc THEN DeleteByDocumentId(vs, existing.id) ELSE vs

\* An _index_document that treats a document without chunks as indexed.
NoChunksAccepted(chunks) == FALSE

\* if not chunks:
NoChunks(chunks) == chunks = <<>>

\* Indexer._index_document from "try:" on. raise_at names the extractor
\* call that raises ("none": neither does); chunked is what chunk_pages does
\* on the pages the extractor yields.
TryIndex(ms, vs, file_path, existing, raise_at, chunked, call_no) ==
    IF raise_at = "get_page_count"
    THEN CreateFailedDocument(ms, vs, <<>>, file_path, "Extraction error", existing)
    ELSE
    LET doc == IF existing # NoDoc
               THEN [existing EXCEPT !.status = "processing", !.error_message = "None"]
               ELSE Document(Len(ms) + 1, file_path, "processing", "None")
        \* doc is existing itself: the handlers see its new fields
        existing1 == IF existing # NoDoc THEN doc ELSE NoDoc
        ms1 == IF existing # NoDoc THEN MetaUpdate(ms, doc) ELSE MetaAdd(ms, doc)
        vs1 == OldChunksRemoved(vs, existing)
        ops1 == IF existing # NoDoc THEN <<"delete_by_document_id">> ELSE <<>>
    IN  IF raise_at = "extract_pages"
        THEN CreateFailedDocument(ms1, vs1, ops1, file_path, "Extraction error", existing1)
        ELSE IF chunked.kind = "raised"
            THEN CreateFailedDocument(ms1, vs1, ops1, file_path,
                                      "Unexpected error", existing1)
            ELSE IF NoChunks(chunked.chunks)
            THEN LET failed == [doc EXCEPT !.status = "failed",
                                  !.error_message = "No content could be extracted"]
                 IN  Outcome(MetaUpdate(ms1, failed), vs1,
                             IndexingResult(failed, FALSE, "No content extracted", 0),
                             ops1)
            ELSE LET completed == [doc EXCEPT !.status = "completed",
                                     !.chunk_count = Len(chunked.chunks)]
                 IN  Outcome(MetaUpdate(ms1, completed),
                             AddChunks(vs1, StoredChunks(chunked.chunks, doc.id, call_no)),
                             IndexingResult(completed, TRUE, "None", Len(chunked.chunks)),
                             Append(ops1, "add_chunks"))

\* Indexer._index_document; existing is what get_by_path returned
IndexDocumentOutcome(ms, vs, file_path, force, existing, is_valid, raise_at, pages, fail_batch, call_no) ==
    IF existing # NoDoc /\ ~force /\ existing.status = "completed"
    THEN Outcome(ms, vs,
                 IndexingResult(existing, FALSE,
                                "Already indexed (use --force to reindex)", 0), <<>>)
    ELSE IF ~is_valid
    THEN LET doc == Document(IF existing # NoDoc THEN existing.id ELSE Len(ms) + 1,
                             file_path, "failed", "Invalid PDF")
         IN  Outcome(IF existing # NoDoc THEN MetaUpdate(ms, doc) ELSE MetaAdd(ms, doc),
                     vs, IndexingResult(doc, FALSE, "Invalid PDF", 0), <<>>)
    ELSE TryIndex(ms, vs, file_path, existing, raise_at,
                  ChunkPages(pages, fail_batch), call_no)

\* The stores and the result once _index_document has returned out; the
\* record of the call keeps the operations it issued on the vector store.
Returned(call, out) ==
    /\ metadata_store' = out.metadata_store
    /\ vector_store' = out.vector_store
    /\ i_result' = out.result
    /\ i_call' = call @@ [ops |-> out.ops]

\* Indexer.index_document
IndexDocument(file_path, force, is_valid, raise_at, pages, fail_batch) ==
    /\ phase = "indexer" /\ i_calls < MaxIndexCalls
    /\ \E existing \in GetByPath(metadata_store, file_path) :
         Returned([op |-> "index_document", file_path |-> file_path,
                   force |-> force, existing |-> existing,
                   is_valid |-> is_valid, raise_at |-> raise_at,
                   pages |-> pages, fail_batch |-> fail_batch,
                   store_before |-> vector_store],
                  IndexDocumentOutcome(metadata_store, vector_store, file_path, force,
                      existing, is_valid, raise_at, pages, fail_batch, i_calls + 1))
    /\ i_calls' = i_calls + 1
    /\ UNCHANGED <<phase, rvars, gvars, kvars, cvars>>

\* ---- inputs and specification of the indexer ----

Paths == {"a.pdf", "b.pdf"}
RaisePoints == {"none", "get_page_count", "extract_pages"}

\* Pages of a document: one too short to be chunked, one the model cuts
\* into a chunk, one chunked by the paragraph fallback.
PageEmpty == [text |-> TextShort, llm |-> LlmNotCalled]
PageOne == [text |-> TextNormal, llm |-> LlmSegments(<<SegOk>>)]
PageFallback == [text |-> TextNormal, llm |-> LlmRaises]
IndexPageLists ==
    { <<>>, <<PageEmpty>>, <<PageEmpty, PageEmpty>>, <<PageOne>>,
      <<PageEmpty, PageOne>>, <<PageFallback, PageEmpty>>, <<PageOne, PageFallback>> }
FailBatches == {0, 1}

InitIndexer ==
    /\ phase = "indexer"
    /\ IndexerIdle
    /\ RetrIdle
    /\ GenIdle
    /\ ChunkIdle
    /\ RerankerIdle

NextIndexer ==
    /\ i_calls < MaxIndexCalls
    /\ \E file_path \in Paths, force \in BOOLEAN, is_valid \in BOOLEAN,
          raise_at \in RaisePoints, pages \in IndexPageLists, fail_batch \in FailBatches :
          IndexDocument(file_path, force, is_valid, raise_at, pages, fail_batch)

SpecIndexer == InitIndexer /\ [][NextIndexer]_vars

\* ---- properties of the indexer ----

IsIndexCall == i_call.op = "index_document"

\* The call reached chunk_pages, which returned.
ChunkPagesReturned ==
    /\ IsIndexCall
    /\ ~(/\ i_call.existing # NoDoc /\ ~i_call.force
         /\ i_call.existing.status = "completed")
    /\ i_call.is_valid
    /\ i_call.raise_at = "none"
    /\ ChunkPages(i_call.pages, i_call.fail_batch).kind = "chunks"

\* The Document records of a path
RecordsOf(file_path) ==
    { n \in 1..Len(metadata_store) : metadata_store[n].file_path = file_path }

\* C18: if chunk_pages yields no chunk for the whole document,
\* _index_document reports success = False, the document is persisted with
\* status FAILED and nothing is added to the vector store; a page without
\* chunks does not by itself fail the document.
C18_NoChunksFailsDocument ==
    ChunkPagesReturned =>
        LET chunks == ChunkPages(i_call.pages, i_call.fail_batch).chunks
            page_without_chunk ==
                \E p \in 1..Len(i_call.pages) :
                    \A j \in 1..Len(chunks) : chunks[j].page_number # p
        IN  /\ chunks = <<>> =>
                /\ ~i_result.success
                /\ \A n \in RecordsOf(i_call.file_path) :
                      metadata_store[n].id = i_result.document.id =>
                          metadata_store[n].status = "failed"
                /\ \E n \in RecordsOf(i_call.file_path) :
                      metadata_store[n].id = i_result.document.id
                /\ vector_store \subseteq i_call.store_before
                /\ \A n \in 1..Len(i_call.ops) : i_call.ops[n] # "add_chunks"
            /\ (page_without_chunk /\ chunks # <<>>) =>
                /\ i_result.success
                /\ i_result.document.status = "completed"
                /\ i_result.chunks_created = Len(chunks)

\* A document of two pages without a chunk has failed, and a document with
\* one such page and one chunk has been indexed.
C18_Witness ==
    /\ ChunkPagesReturned
    /\ i_calls = 2
    /\ i_call.pages = <<PageEmpty, PageEmpty>>
    /\ i_result.document.status = "failed"
    /\ \E c \in vector_store : c.call = 1
    /\ \E n \in 1..Len(metadata_store) :
          metadata_store[n].status = "completed" /\ metadata_store[n].chunk_count = 1

\* The chunks the vector store holds for a document id
ChunksOfDoc(store, document_id) == { c \in store : c.document_id = document_id }

\* C24: when _index_document re-indexes an existing document,
\* delete_by_document_id is issued before any add_chunks, and after a
\* successful re-index the vector store holds for that document id exactly
\* the chunks this pass created, none of the previous pass.
C24_ReindexReplacesChunks ==
    (IsIndexCall /\ i_call.existing # NoDoc) =>
        /\ \A n \in 1..Len(i_call.ops) :
              i_call.ops[n] = "add_chunks" =>
                  \E k \in 1..(n - 1) : i_call.ops[k] = "delete_by_document_id"
        /\ i_result.success =>
              LET held == ChunksOfDoc(vector_store, i_call.existing.id)
              IN  /\ i_result.document.id = i_call.existing.id
                  /\ \A c \in held : c.call = i_calls
                  /\ Cardinality(held) = i_result.chunks_created
                  /\ i_result.chunks_created > 0

\* A document indexed with two chunks has been re-indexed by force with one:
\* the store held two chunks of it before the call and holds one after.
C24_Witness ==
    /\ IsIndexCall /\ i_calls = 2
    /\ i_call.existing # NoDoc /\ i_call.existing.status = "completed"
    /\ i_call.force
    /\ i_result.success
    /\ Cardinality(ChunksOfDoc(i_call.store_before, i_call.existing.id)) = 2
    /\ Cardinality(ChunksOfDoc(vector_store, i_call.existing.id)) = 1
    /\ i_call.ops = <<"delete_by_document_id", "add_chunks">>


\* C27: after index_document has returned, the file path has exactly one
\* metadata record, and it is COMPLETED or FAILED, never PROCESSING or
\* PENDING, also when extraction, chunking or embedding raised for a new file.
C27_NoRecordLeftProcessing ==
    IsIndexCall =>
        /\ Cardinality(RecordsOf(i_call.file_path)) = 1
        /\ \A n \in RecordsOf(i_call.file_path) :
              metadata_store[n].status \in {"completed", "failed"}

\* What does hold: the Document that index_document returns is COMPLETED or
\* FAILED.
C27_FinalStatusOfReturned ==
    IsIndexCall => i_result.document.status \in {"completed", "failed"}


\* C28: after any sequence of index_document calls, every chunk in the vector
\* store belongs to a document whose record is COMPLETED and whose chunk_count
\* is the number of its chunks in the store.
C28_ChunksOfCompletedDocuments ==
    \A c \in vector_store :
        \E n \in 1..Len(metadata_store) :
            /\ metadata_store[n].id = c.document_id
            /\ metadata_store[n].status = "completed"
            /\ metadata_store[n].chunk_count =
                  Cardinality(ChunksOfDoc(vector_store, c.document_id))

\* What does hold: every chunk in the store carries the id of a record, and
\* a COMPLETED record counts exactly its chunks in the store.
C28_CompletedCountsItsChunks ==
    /\ \A c \in vector_store :
          \E n \in 1..Len(metadata_store) : metadata_store[n].id = c.document_id
    /\ \A n \in 1..Len(metadata_store) :
          metadata_store[n].status = "completed" =>
              metadata_store[n].chunk_count =
                  Cardinality(ChunksOfDoc(vector_store, metadata_store[n].id))

====
